---------------------------- MODULE Spec2Model ----------------------------
(***************************************************************************)
(* A model of the TFRT host runtime core:                                  *)
(*   - the core-runtime kernels corert.while, corert.cond and              *)
(*     corert.executeop.seq (lib/core_runtime/kernels.cc),                 *)
(*   - the async values these kernels are written against,                 *)
(*   - the MLIR -> BEF converter (lib/bef_converter/mlir_to_bef).          *)
(* Each subsystem has its own variables and its own specification; the     *)
(* variables of the other subsystems stay at their initial value.          *)
(***************************************************************************)
EXTENDS Integers, Sequences, FiniteSets, TLC

(***************************************************************************)
(* Bounds of the model.                                                    *)
(***************************************************************************)
\* largest number of arguments (= results) of corert.while / corert.cond
MaxArgs == 2
\* largest number of loop bodies run by one corert.while
MaxIter == 2
\* largest number of elements of a condition host tensor
MaxElems == 2

\* threads writing to, and registering callbacks on, the async values
MaxThreads == 2

\* callbacks registered with and_then
MaxCallbacks == 2

\* distinct payloads (values, errors) a write may carry
MaxPayload == 2

\* largest number of bytes of the file in front of a section emitted alone
MaxPrefix == 8
\* largest number of bytes of the payload of a section emitted alone
MaxData == 65
\* the largest dimension of a tensor shape
MaxDim == 4

VARIABLES
  \* ---- corert.while ----------------------------------------------------
  w_pc,          \* position of the kernel: idle, wait_cond, wait_tensor,
                 \* wait_host, queued, done, aborted
  w_args,        \* arg_refs: the loop state, a sequence of async value ids
  w_results,     \* result_refs: the indirect async values of the results
  w_cancel,      \* exec_ctx.GetCancelAsyncValue() is non-null
  w_chain,       \* state of condition[0], the chain returned by cond_fn
  w_th,          \* state of condition[1], the tensor handle async value
  w_cpu,         \* the handle's device is a CpuDevice
  w_tensor,      \* state of the handle's async tensor
  w_host,        \* state of the converted host tensor
  w_cond_calls,  \* number of cond_fn->Execute calls
  w_body_calls,  \* number of body_fn->Execute calls
  w_iters,       \* number of CoreRtWhileLoopIteration calls
  w_preds,       \* the predicate values computed so far, one per evaluation
  w_exit,        \* how the results were resolved: none, cancel, error, false
  w_cancel_mid,  \* the cancel value was set while the loop was in progress
  w_cancel_iters,\* the value of w_iters when the cancel value was set
  w_ht,          \* the host tensor the last predicate was computed from
  \* ---- corert.cond -----------------------------------------------------
  c_pc,          \* position of the kernel: idle, wait_th, wait_tensor,
                 \* wait_host, done, aborted
  c_args,        \* arg_refs: the predicate handle, then the other arguments
  c_results,     \* result_refs: the indirect async values of the results
  c_th,          \* state of args[0], the condition tensor handle
  c_tensor,      \* state of the handle's async tensor
  c_host,        \* state of the converted host tensor
  c_true_calls,  \* number of true_fn->Execute calls
  c_false_calls, \* number of false_fn->Execute calls
  c_fn_args,     \* the arguments handed to the function that was called
  c_pred,        \* the predicate computed: none, true, false
  c_ht,          \* the host tensor the predicate was computed from
  \* ---- corert.executeop.seq --------------------------------------------
  s_pc,          \* position of the kernel: idle, wait_args, wait_opchain,
                 \* done
  s_handler,     \* state of the op_handler argument
  s_in_chain,    \* state of in_op_chain
  s_args,        \* states of the remaining arguments
  s_results,     \* states of the results: unallocated or an AVState
  s_dispatched,  \* number of ExecuteOpImpl calls
  s_op_chain,    \* state of the chain ExecuteOpImpl leaves in op_chain
  s_out_ref,     \* what the out_op_chain result holds: none, op_chain (the
                 \* op chain itself), own (an allocated chain), error
  s_out_own,     \* state of the chain allocated by out_op_chain.Allocate()
  s_out_writer,  \* who set the allocated chain: none, propagate_error,
                 \* op_chain_waiter
  s_path,        \* the path taken: none, no_runtime, fast, waiter
  \* ---- async values ----------------------------------------------------
  a_state,       \* state of each async value
  a_payload,     \* payload (value or error) of each async value, 0: none
  a_waiters,     \* callbacks enqueued on each async value
  a_fwd,         \* the value the indirect value was forwarded to, 0: none
  a_pending,     \* per thread: callbacks taken by its transition, to run
  a_writer,      \* per value: the thread that made it terminal, 0: none
  a_rejected,    \* a write on a terminal value was rejected
  cb_av,         \* per callback: the value it was registered on, 0: none
  cb_reg,        \* per callback: none, inline, enqueued
  cb_reg_thread, \* per callback: the registering thread
  cb_at_reg,     \* per callback: the state of the value at registration
  cb_runs,       \* per callback: number of runs
  cb_seen,       \* per callback: the state it observed
  cb_thread,     \* per callback: the thread that ran it
  \* ---- MLIR to BEF converter -------------------------------------------
  b_pc,          \* position of the conversion: idle, collect, done, or
                 \* aborted (an assert or a null dereference has stopped
                 \* the process)
  b_build,       \* the build of the converter: "assert" (asserts are
                 \* compiled in), "ndebug" (NDEBUG is defined), or "unknown"
                 \* as long as no assert has failed
  b_ir,          \* the module converted, an index of IRs
  b_optional,    \* the optional sections are wanted
  b_walk,        \* the operations the walk has still to visit
  b_collect,     \* the state of Collect: entity table, result, function
                 \* references, diagnostics
  entity_index_, \* the offsets recorded while emitting
  result_,       \* the emitter of the file image
  attribute_types, \* the emitter of the attribute types section
  b_run,         \* number of conversions started
  b_prev,        \* the image the first conversion returned
  \* ---- one section emitted alone --------------------------------------
  sec,           \* the file before, the payload and the file after one call
                 \* of EmitSection
  \* ---- corert.tensorhandle_to_shape and corert_sync.executeop ---------
  shp,           \* tensorhandle_to_shape: position, the handle's metadata,
                 \* the result and the metadata state seen at the call
  syn            \* corert_sync.executeop: position, the inputs of the call,
                 \* the returned error and the results left in the frame

whileVars == <<w_pc, w_args, w_results, w_cancel, w_chain, w_th, w_cpu,
               w_tensor, w_host, w_cond_calls, w_body_calls, w_iters,
               w_preds, w_exit, w_cancel_mid, w_cancel_iters, w_ht>>

condVars == <<c_pc, c_args, c_results, c_th, c_tensor, c_host, c_true_calls,
              c_false_calls, c_fn_args, c_pred, c_ht>>

seqVars == <<s_pc, s_handler, s_in_chain, s_args, s_results, s_dispatched,
             s_op_chain, s_out_ref, s_out_own, s_out_writer, s_path>>

avVars == <<a_state, a_payload, a_waiters, a_fwd, a_pending, a_writer,
            a_rejected, cb_av, cb_reg, cb_reg_thread, cb_at_reg, cb_runs,
            cb_seen, cb_thread>>

compileVars == <<b_pc, b_build, b_ir, b_optional, b_walk, b_collect,
                 entity_index_, result_, attribute_types, b_run, b_prev>>

vars == <<whileVars, condVars, seqVars, avVars, compileVars, sec, shp, syn>>

(***************************************************************************)
(* Async values, as the kernels use them.                                  *)
(*                                                                         *)
(* The state of an awaited async value is one of AVStates.  An indirect    *)
(* async value (a kernel result) is a record: st is unresolved, forwarded  *)
(* or error; to is the id of the value it was forwarded to (or the         *)
(* diagnostic it was set to); n counts the ForwardTo/SetError calls made   *)
(* on it.  Ids and diagnostics are triples <<name, k, i>>.                 *)
(***************************************************************************)
AVStates == {"unavailable", "concrete", "error"}

IsAvailable(s) == s \in {"concrete", "error"}



\* IndirectAsyncValue::ForwardTo: the first resolution wins.
ForwardTo(r, target) ==
  IF r.st = "unresolved"
    THEN [st |-> "forwarded", to |-> target, n |-> r.n + 1]
    ELSE [r EXCEPT !.n = r.n + 1]

\* AsyncValue::SetError on an indirect value.
SetError(r, diag) ==
  IF r.st = "unresolved"
    THEN [st |-> "error", to |-> diag, n |-> r.n + 1]
    ELSE [r EXCEPT !.n = r.n + 1]

\* for (auto &result : results) result->ForwardTo(FormRef(value));
ForwardAll(results, target) ==
  [i \in DOMAIN results |-> ForwardTo(results[i], target)]

\* for (auto &result : result_refs) result->SetError(error_value->GetError());
SetErrorAll(results, diag) ==
  [i \in DOMAIN results |-> SetError(results[i], diag)]

AllocateIndirectResults(n) ==
  [i \in 1..n |-> [st |-> "unresolved", to |-> <<"none", 0, 0>>, n |-> 0]]

(***************************************************************************)
(* Condition tensors.  elems holds the elements: a bool as 0/1, an         *)
(* integer as itself, a string as its length.                              *)
(***************************************************************************)
\* the host tensors a condition may convert to: dense tensors of BOOL (elements
\* 0 or 1), I32 and F32, string tensors, and a tensor of another kind
HostTensors ==
  LET ElemSeqs == UNION {[1..k -> {0, 1, 2}] : k \in 0..MaxElems}
      BinarySeqs == {s \in ElemSeqs : \A i \in DOMAIN s : s[i] \in {0, 1}}
  IN {[kind |-> "dense", dtype |-> "BOOL", elems |-> e] : e \in BinarySeqs}
     \cup {[kind |-> "dense", dtype |-> "I32", elems |-> e] : e \in ElemSeqs}
     \cup {[kind |-> "dense", dtype |-> "F32", elems |-> <<1>>]}
     \cup {[kind |-> "string", dtype |-> "STRING", elems |-> e] :
             e \in BinarySeqs}
     \cup {[kind |-> "other", dtype |-> "NA", elems |-> <<>>]}

\* llvm::Expected<bool>, the result of a predicate computation: a value, an
\* error, or the process stopping (a failed assert or llvm_unreachable).
Expected(kind, val) == [kind |-> kind, val |-> val]

\* GetDHTPredicateValue: the set of outcomes the build can produce.  A
\* dtype outside BOOL and the integer kinds reaches llvm_unreachable; a
\* tensor that does not hold exactly one element fails the assert (builds
\* with asserts) or reads element 0 (builds without).
GetDHTPredicateValue(dht) ==
  IF dht.dtype \notin {"BOOL", "I32"}
    THEN {Expected("abort", FALSE), Expected("value", TRUE),
          Expected("value", FALSE)}
  ELSE IF Len(dht.elems) = 1
    THEN {Expected("value", dht.elems[1] # 0)}
  ELSE IF Len(dht.elems) = 0
    THEN {Expected("abort", FALSE), Expected("value", TRUE),
          Expected("value", FALSE)}
  ELSE {Expected("abort", FALSE), Expected("value", dht.elems[1] # 0)}

\* GetTensorPredicateValue
GetTensorPredicateValue(tensor) ==
  IF tensor.kind = "dense"
    THEN GetDHTPredicateValue(tensor)
  ELSE IF tensor.kind = "string"
    THEN {Expected("value", Len(tensor.elems) # 0 /\ tensor.elems[1] # 0)}
  ELSE {Expected("error", FALSE)}

\* Mutant of ReturnAfterHandlingError: only an error of the handle's
\* tensor is looked at.
ReturnAfterHandlingError_HandleOnly(cond_st, cond_id, is_th, th_tensor, tensor_id, results) ==
  IF is_th /\ th_tensor = "error"
    THEN [ret |-> TRUE, results |-> ForwardAll(results, tensor_id)]
  ELSE [ret |-> FALSE, results |-> results]

\* ReturnAfterHandlingError(condition, results): ret is the returned bool.
\* is_th: condition->IsType<TensorHandle>(); th_tensor: the state of the
\* handle's async tensor (TensorHandle::IsError()).
ReturnAfterHandlingError(cond_st, cond_id, is_th, th_tensor, tensor_id, results) ==
  IF cond_st = "error"
    THEN [ret |-> TRUE, results |-> ForwardAll(results, cond_id)]
  ELSE IF is_th /\ th_tensor = "error"
    THEN [ret |-> TRUE, results |-> ForwardAll(results, tensor_id)]
  ELSE [ret |-> FALSE, results |-> results]

(***************************************************************************)
(* corert.while                                                            *)
(***************************************************************************)
WhileInit ==
  /\ w_pc = "idle"
  /\ w_args = <<>>
  /\ w_results = <<>>
  /\ w_cancel = FALSE
  /\ w_chain = "unavailable"
  /\ w_th = "unavailable"
  /\ w_cpu = TRUE
  /\ w_tensor = "unavailable"
  /\ w_host = "unavailable"
  /\ w_cond_calls = 0
  /\ w_body_calls = 0
  /\ w_iters = 0
  /\ w_preds = <<>>
  /\ w_exit = "none"
  /\ w_cancel_mid = FALSE
  /\ w_cancel_iters = 0
  /\ w_ht = [kind |-> "none", dtype |-> "none", elems |-> <<>>]

\* Mutants of the cancellation check: made only in the first iteration;
\* never made.
CancellationDetected_FirstOnly(cancel) == cancel /\ w_iters = 0

CancellationDetected_Never(cancel) == FALSE

\* if (auto cancel_av = exec_ctx.GetCancelAsyncValue())
CancellationDetected(cancel) == cancel

\* Mutant of the copy of the loop state: every result gets the first value.
CopyArgsToResults_First(args, results) ==
  [i \in DOMAIN results |-> ForwardTo(results[i], args[1])]

\* The predicate-false branch of CoreRtWhileLoopIterationImpl:
\* result_refs[arg]->ForwardTo(FormRef(arg_refs[arg].get()))
CopyArgsToResults(args, results) ==
  [i \in DOMAIN results |-> ForwardTo(results[i], args[i])]

\* CoreRtWhileLoopIteration, up to the RunWhenReady registration.  The
\* values returned by cond_fn may already be available.
CoreRtWhileLoopIteration(args, results) ==
  /\ w_iters' = w_iters + 1
  /\ w_args' = args
  /\ IF CancellationDetected(w_cancel)
       THEN /\ w_results' = ForwardAll(results, <<"cancel", 0, 0>>)
            /\ w_pc' = "done"
            /\ w_exit' = "cancel"
            /\ UNCHANGED <<w_chain, w_th, w_cpu, w_tensor, w_host,
                           w_cond_calls, w_ht>>
       ELSE /\ w_results' = results
            /\ w_ht' = [kind |-> "none", dtype |-> "none", elems |-> <<>>]
            /\ w_cond_calls' = w_cond_calls + 1
            /\ w_chain' \in AVStates
            /\ w_th' \in AVStates
            /\ w_cpu' \in BOOLEAN
            /\ w_tensor' \in AVStates
            /\ w_host' = "unavailable"
            /\ w_pc' = "wait_cond"
            /\ w_exit' = w_exit

\* CoreRtWhileLoop: the kernel.  n is the number of arguments and results.
CoreRtWhileLoop(n) ==
  /\ w_pc = "idle"
  /\ CoreRtWhileLoopIteration([i \in 1..n |-> <<"val", 0, i>>],
                              AllocateIndirectResults(n))
  /\ UNCHANGED <<w_cancel, w_body_calls, w_preds, w_cancel_mid,
                 w_cancel_iters>>

\* The work item enqueued by CoreRtWhileLoopIterationImpl.
WhileRunEnqueued ==
  /\ w_pc = "queued"
  /\ CoreRtWhileLoopIteration(w_args, w_results)
  /\ UNCHANGED <<w_cancel, w_body_calls, w_preds, w_cancel_mid,
                 w_cancel_iters>>

\* One of the values a condition evaluation awaits becomes available:
\* cond_fn's chain or tensor handle, the handle's async tensor, or the host
\* tensor ConvertTensor returned.
WhileResolve(which, s) ==
  /\ CASE which = "chain" -> w_pc = "wait_cond" /\ w_chain = "unavailable"
       [] which = "th" -> w_pc = "wait_cond" /\ w_th = "unavailable"
       [] which = "tensor" -> /\ w_pc \in {"wait_cond", "wait_tensor"}
                              /\ w_tensor = "unavailable"
       [] which = "host" -> w_pc = "wait_host" /\ w_host = "unavailable"
  /\ w_chain' = IF which = "chain" THEN s ELSE w_chain
  /\ w_th' = IF which = "th" THEN s ELSE w_th
  /\ w_tensor' = IF which = "tensor" THEN s ELSE w_tensor
  /\ w_host' = IF which = "host" THEN s ELSE w_host
  /\ UNCHANGED <<w_pc, w_args, w_results, w_cancel, w_cpu, w_cond_calls,
                 w_body_calls, w_iters, w_preds, w_exit, w_cancel_mid,
                 w_cancel_iters, w_ht>>

\* The RunWhenReady callback of CoreRtWhileLoopIteration: runs once both
\* outputs of cond_fn are available.
WhileCondReady ==
  /\ w_pc = "wait_cond"
  /\ IsAvailable(w_chain) /\ IsAvailable(w_th)
  /\ LET h == ReturnAfterHandlingError(w_th, <<"cond_th", w_cond_calls, 0>>, TRUE,
                                       w_tensor, <<"cond_tensor", w_cond_calls, 0>>,
                                       w_results)
     IN IF h.ret
          THEN /\ w_results' = h.results
               /\ w_pc' = "done"
               /\ w_exit' = "error"
        ELSE IF ~w_cpu
          THEN /\ w_results' = SetErrorAll(w_results,
                    <<"non-cpu device for condition tensor handle", 0, 0>>)
               /\ w_pc' = "done"
               /\ w_exit' = "error"
        ELSE /\ w_results' = w_results
             /\ w_pc' = "wait_tensor"
             /\ w_exit' = w_exit
  /\ UNCHANGED <<w_args, w_cancel, w_chain, w_th, w_cpu, w_tensor, w_host,
                 w_cond_calls, w_body_calls, w_iters, w_preds, w_cancel_mid,
                 w_cancel_iters, w_ht>>

\* The AndThen callback on the condition's async tensor.  ConvertTensor
\* returns the host tensor async value, available or not.
WhileTensorReady ==
  /\ w_pc = "wait_tensor"
  /\ IsAvailable(w_tensor)
  /\ LET h == ReturnAfterHandlingError(w_tensor, <<"cond_tensor", w_cond_calls, 0>>,
                                       FALSE, w_tensor,
                                       <<"cond_tensor", w_cond_calls, 0>>, w_results)
     IN IF h.ret
          THEN /\ w_results' = h.results
               /\ w_pc' = "done"
               /\ w_exit' = "error"
               /\ w_host' = w_host
          ELSE /\ w_results' = w_results
               /\ w_pc' = "wait_host"
               /\ w_exit' = w_exit
               /\ w_host' \in AVStates
  /\ UNCHANGED <<w_args, w_cancel, w_chain, w_th, w_cpu, w_tensor,
                 w_cond_calls, w_body_calls, w_iters, w_preds, w_cancel_mid,
                 w_cancel_iters, w_ht>>

\* Mutant of CoreRtWhileLoopIterationImpl: the results are forwarded to
\* the loop state in every iteration, not only in the last one.
CoreRtWhileLoopIterationImpl_ForwardEachIteration(p) ==
  IF p.kind = "abort"
    THEN /\ w_pc' = "aborted"
         /\ UNCHANGED <<w_args, w_results, w_body_calls, w_preds, w_exit>>
  ELSE IF p.kind = "error"
    THEN /\ w_results' = SetErrorAll(w_results,
                <<"tensor predicate does not support type", 0, 0>>)
         /\ w_pc' = "done"
         /\ w_exit' = "error"
         /\ UNCHANGED <<w_args, w_body_calls, w_preds>>
  ELSE IF ~p.val
    THEN /\ w_results' = CopyArgsToResults(w_args, w_results)
         /\ w_preds' = Append(w_preds, FALSE)
         /\ w_pc' = "done"
         /\ w_exit' = "false"
         /\ UNCHANGED <<w_args, w_body_calls>>
  ELSE /\ w_body_calls < MaxIter
       /\ w_body_calls' = w_body_calls + 1
       /\ w_preds' = Append(w_preds, TRUE)
       /\ w_args' = [i \in DOMAIN w_args |-> <<"val", w_body_calls + 1, i>>]
       /\ w_results' = CopyArgsToResults(w_args, w_results)
       /\ w_pc' = "queued"
       /\ UNCHANGED w_exit

\* CoreRtWhileLoopIterationImpl, given the outcome of the predicate.
CoreRtWhileLoopIterationImpl(p) ==
  IF p.kind = "abort"
    THEN /\ w_pc' = "aborted"
         /\ UNCHANGED <<w_args, w_results, w_body_calls, w_preds, w_exit>>
  ELSE IF p.kind = "error"
    THEN /\ w_results' = SetErrorAll(w_results,
                <<"tensor predicate does not support type", 0, 0>>)
         /\ w_pc' = "done"
         /\ w_exit' = "error"
         /\ UNCHANGED <<w_args, w_body_calls, w_preds>>
  ELSE IF ~p.val
    THEN /\ w_results' = CopyArgsToResults(w_args, w_results)
         /\ w_preds' = Append(w_preds, FALSE)
         /\ w_pc' = "done"
         /\ w_exit' = "false"
         /\ UNCHANGED <<w_args, w_body_calls>>
  ELSE /\ w_body_calls < MaxIter
       /\ w_body_calls' = w_body_calls + 1
       /\ w_preds' = Append(w_preds, TRUE)
       /\ w_args' = [i \in DOMAIN w_args |-> <<"val", w_body_calls + 1, i>>]
       /\ w_pc' = "queued"
       /\ UNCHANGED <<w_results, w_exit>>

\* The AndThen callback on the converted host tensor.
WhileHostReady(ht) ==
  /\ w_pc = "wait_host"
  /\ IsAvailable(w_host)
  /\ LET h == ReturnAfterHandlingError(w_host, <<"cond_host", w_cond_calls, 0>>, FALSE,
                                       w_tensor, <<"cond_tensor", w_cond_calls, 0>>,
                                       w_results)
     IN IF h.ret
          THEN /\ w_results' = h.results
               /\ w_pc' = "done"
               /\ w_exit' = "error"
               /\ UNCHANGED <<w_args, w_body_calls, w_preds, w_ht>>
          ELSE /\ w_ht' = ht
               /\ \E p \in GetTensorPredicateValue(ht) :
                    CoreRtWhileLoopIterationImpl(p)
  /\ UNCHANGED <<w_cancel, w_chain, w_th, w_cpu, w_tensor, w_host,
                 w_cond_calls, w_iters, w_cancel_mid, w_cancel_iters>>

\* Another thread sets the cancel async value of the request context.
WhileCancel ==
  /\ ~w_cancel
  /\ w_cancel' = TRUE
  /\ w_cancel_mid' = (w_pc \notin {"idle", "done", "aborted"})
  /\ w_cancel_iters' = w_iters
  /\ UNCHANGED <<w_pc, w_args, w_results, w_chain, w_th, w_cpu, w_tensor,
                 w_host, w_cond_calls, w_body_calls, w_iters, w_preds,
                 w_exit, w_ht>>

WhileNext ==
  \/ \E n \in 1..MaxArgs : CoreRtWhileLoop(n)
  \/ WhileRunEnqueued
  \/ \E which \in {"chain", "th", "tensor", "host"},
        s \in {"concrete", "error"} : WhileResolve(which, s)
  \/ WhileCondReady
  \/ WhileTensorReady
  \/ \E ht \in HostTensors : WhileHostReady(ht)
  \/ WhileCancel

(***************************************************************************)
(* corert.cond                                                             *)
(***************************************************************************)
CondInit ==
  /\ c_pc = "idle"
  /\ c_args = <<>>
  /\ c_results = <<>>
  /\ c_th = "unavailable"
  /\ c_tensor = "unavailable"
  /\ c_host = "unavailable"
  /\ c_true_calls = 0
  /\ c_false_calls = 0
  /\ c_fn_args = <<>>
  /\ c_pred = "none"
  /\ c_ht = [kind |-> "none", dtype |-> "none", elems |-> <<>>]

\* Mutant of the choice of the function: the branches are swapped.
SelectFunction_Swapped(predicate) ==
  IF predicate THEN "false_fn" ELSE "true_fn"

\* const Function *fn = predicate.get() ? true_fn : false_fn;
SelectFunction(predicate) == IF predicate THEN "true_fn" ELSE "false_fn"

\* arg_refs.drop_front()
DropFront(args) == [i \in 1..(Len(args) - 1) |-> args[i + 1]]

\* result_refs[i]->ForwardTo(std::move(results[i])), results being the
\* values returned by fn->Execute
ForwardToFnResults(fn, results) ==
  [i \in DOMAIN results |-> ForwardTo(results[i], <<fn, 0, i>>)]

\* CoreRtConditional: the kernel, up to the AndThen on args[0].  nargs is the
\* number of arguments after the predicate, nres the number of results.  The
\* predicate handle may already be available.
CoreRtConditional(nargs, nres) ==
  /\ c_pc = "idle"
  /\ c_args' = [i \in 1..(nargs + 1) |-> <<"arg", 0, i - 1>>]
  /\ c_results' = AllocateIndirectResults(nres)
  /\ c_th' \in AVStates
  /\ c_tensor' \in AVStates
  /\ c_pc' = "wait_th"
  /\ UNCHANGED <<c_host, c_true_calls, c_false_calls, c_fn_args, c_pred,
                 c_ht>>

\* One of the values the kernel awaits becomes available: the condition
\* tensor handle, its async tensor, or the host tensor ConvertTensor returned.
CondResolve(which, s) ==
  /\ CASE which = "th" -> c_pc = "wait_th" /\ c_th = "unavailable"
       [] which = "tensor" -> /\ c_pc \in {"wait_th", "wait_tensor"}
                              /\ c_tensor = "unavailable"
       [] which = "host" -> c_pc = "wait_host" /\ c_host = "unavailable"
  /\ c_th' = IF which = "th" THEN s ELSE c_th
  /\ c_tensor' = IF which = "tensor" THEN s ELSE c_tensor
  /\ c_host' = IF which = "host" THEN s ELSE c_host
  /\ UNCHANGED <<c_pc, c_args, c_results, c_true_calls, c_false_calls,
                 c_fn_args, c_pred, c_ht>>

\* The AndThen callback on the condition tensor handle.
CondTHReady ==
  /\ c_pc = "wait_th"
  /\ IsAvailable(c_th)
  /\ LET h == ReturnAfterHandlingError(c_th, <<"cond_th", 0, 0>>, TRUE, c_tensor,
                                       <<"cond_tensor", 0, 0>>, c_results)
     IN IF h.ret
          THEN c_results' = h.results /\ c_pc' = "done"
          ELSE c_results' = c_results /\ c_pc' = "wait_tensor"
  /\ UNCHANGED <<c_args, c_th, c_tensor, c_host, c_true_calls,
                 c_false_calls, c_fn_args, c_pred, c_ht>>

\* The AndThen callback on the condition's async tensor.  ConvertTensor
\* returns the host tensor async value, available or not.
CondTensorReady ==
  /\ c_pc = "wait_tensor"
  /\ IsAvailable(c_tensor)
  /\ LET h == ReturnAfterHandlingError(c_tensor, <<"cond_tensor", 0, 0>>, FALSE,
                                       c_tensor, <<"cond_tensor", 0, 0>>, c_results)
     IN IF h.ret
          THEN c_results' = h.results /\ c_pc' = "done" /\ c_host' = c_host
          ELSE /\ c_results' = c_results
               /\ c_pc' = "wait_host"
               /\ c_host' \in AVStates
  /\ UNCHANGED <<c_args, c_th, c_tensor, c_true_calls, c_false_calls,
                 c_fn_args, c_pred, c_ht>>

\* if_impl of CoreRtConditional, given the outcome of the predicate.
if_impl(p) ==
  IF p.kind = "abort"
    THEN /\ c_pc' = "aborted"
         /\ UNCHANGED <<c_results, c_true_calls, c_false_calls, c_fn_args,
                        c_pred>>
  ELSE IF p.kind = "error"
    THEN /\ c_results' = SetErrorAll(c_results,
                <<"tensor predicate does not support type", 0, 0>>)
         /\ c_pc' = "done"
         /\ UNCHANGED <<c_true_calls, c_false_calls, c_fn_args, c_pred>>
  ELSE LET fn == SelectFunction(p.val)
       IN /\ c_pred' = IF p.val THEN "true" ELSE "false"
          /\ c_true_calls' = c_true_calls + (IF fn = "true_fn" THEN 1 ELSE 0)
          /\ c_false_calls' = c_false_calls
                                + (IF fn = "false_fn" THEN 1 ELSE 0)
          /\ c_fn_args' = DropFront(c_args)
          /\ c_results' = ForwardToFnResults(fn, c_results)
          /\ c_pc' = "done"

\* The AndThen callback on the converted host tensor.
CondHostReady(ht) ==
  /\ c_pc = "wait_host"
  /\ IsAvailable(c_host)
  /\ LET h == ReturnAfterHandlingError(c_host, <<"cond_host", 0, 0>>, FALSE, c_tensor,
                                       <<"cond_tensor", 0, 0>>, c_results)
     IN IF h.ret
          THEN /\ c_results' = h.results
               /\ c_pc' = "done"
               /\ UNCHANGED <<c_true_calls, c_false_calls, c_fn_args, c_pred,
                              c_ht>>
          ELSE /\ c_ht' = ht
               /\ \E p \in GetTensorPredicateValue(ht) : if_impl(p)
  /\ UNCHANGED <<c_args, c_th, c_tensor, c_host>>

CondNext ==
  \/ \E nargs \in 0..MaxArgs, nres \in 0..MaxArgs :
       CoreRtConditional(nargs, nres)
  \/ \E which \in {"th", "tensor", "host"}, s \in {"concrete", "error"} :
       CondResolve(which, s)
  \/ CondTHReady
  \/ CondTensorReady
  \/ \E ht \in HostTensors : CondHostReady(ht)

(***************************************************************************)
(* corert.executeop.seq                                                    *)
(***************************************************************************)
SeqInit ==
  /\ s_pc = "idle"
  /\ s_handler = "unavailable"
  /\ s_in_chain = "unavailable"
  /\ s_args = <<>>
  /\ s_results = <<>>
  /\ s_dispatched = 0
  /\ s_op_chain = "unavailable"
  /\ s_out_ref = "none"
  /\ s_out_own = "unavailable"
  /\ s_out_writer = "none"
  /\ s_path = "none"

\* AsyncValue::SetError / emplace on a chain: an available value stays.
SetStateError(st) == IF st = "unavailable" THEN "error" ELSE st

Emplace(st) == IF st = "unavailable" THEN "concrete" ELSE st

\* AsyncValue::IsConcrete
IsConcrete(st) == st = "concrete"

\* KernelErrorHandler::ReportError: every result not yet available becomes
\* the error.
ReportError(results) ==
  [i \in DOMAIN results |->
     IF IsAvailable(results[i]) THEN results[i] ELSE "error"]

\* Mutant of propgate_error: only the out chain is set to the error.
PropagateErrorToResults_ChainOnly(results) == results

\* propgate_error of the RunWhenReady callback, on the results
PropagateErrorToResults(results) ==
  [i \in DOMAIN results |-> SetStateError(results[i])]

\* async_args is empty: op_handler and every argument are concrete
AsyncArgsEmpty(handler, args) ==
  IsConcrete(handler) /\ \A i \in DOMAIN args : IsConcrete(args[i])

\* Mutant of the wait on the op chain: the waiter runs at once.
OpChainWaiterMayRun_AtOnce(op_chain) == TRUE

\* op_chain_av->AndThen(...): the waiter runs once the op chain is available
OpChainWaiterMayRun(op_chain) == IsAvailable(op_chain)

\* The waiter on the op chain: SetError if the op chain is an error,
\* emplace otherwise.
OutChainFromOpChain(out, op_chain) ==
  IF op_chain = "error" THEN SetStateError(out) ELSE Emplace(out)

\* ExecuteOpSeq: the kernel.  core_rt: a CoreRuntime is available; known:
\* core_rt->MakeOp succeeds; handler, in_chain, args: the states of the
\* arguments at the call; nres: the number of tensor handle results.
ExecuteOpSeq(core_rt, known, handler, in_chain, args, nres) ==
  /\ s_pc = "idle"
  /\ s_handler' = handler
  /\ s_in_chain' = in_chain
  /\ s_args' = args
  /\ IF ~core_rt
       THEN /\ s_results' = ReportError([i \in 1..nres |-> "unallocated"])
            /\ s_out_ref' = "error"
            /\ s_path' = "no_runtime"
            /\ s_pc' = "done"
            /\ UNCHANGED <<s_dispatched, s_op_chain, s_out_own, s_out_writer>>
     ELSE IF AsyncArgsEmpty(handler, args)
       THEN /\ s_path' = "fast"
            /\ s_pc' = "done"
            /\ IF ~known
                 THEN /\ s_results' =
                           ReportError([i \in 1..nres |-> "unavailable"])
                      /\ s_out_ref' = "error"
                      /\ UNCHANGED <<s_dispatched, s_op_chain>>
                 ELSE /\ s_results' = [i \in 1..nres |-> "unavailable"]
                      /\ s_dispatched' = s_dispatched + 1
                      /\ s_op_chain' \in AVStates
                      /\ s_out_ref' = "op_chain"
            /\ UNCHANGED <<s_out_own, s_out_writer>>
     ELSE /\ s_results' = [i \in 1..nres |-> "unavailable"]
          /\ s_out_ref' = "own"
          /\ s_path' = "waiter"
          /\ s_pc' = "wait_args"
          /\ UNCHANGED <<s_dispatched, s_op_chain, s_out_own, s_out_writer>>

\* The RunWhenReady callback: runs once op_handler and the arguments are
\* available.
SeqArgsReady(known) ==
  /\ s_pc = "wait_args"
  /\ IsAvailable(s_handler)
  /\ \A i \in DOMAIN s_args : IsAvailable(s_args[i])
  /\ IF \/ s_handler = "error"
        \/ s_in_chain = "error"
        \/ ~known
        \/ \E i \in DOMAIN s_args : s_args[i] = "error"
       THEN /\ s_out_own' = SetStateError(s_out_own)
            /\ s_out_writer' = "propagate_error"
            /\ s_results' = PropagateErrorToResults(s_results)
            /\ s_pc' = "done"
            /\ UNCHANGED <<s_dispatched, s_op_chain>>
       ELSE /\ s_dispatched' = s_dispatched + 1
            /\ s_op_chain' \in AVStates
            /\ s_pc' = "wait_opchain"
            /\ UNCHANGED <<s_out_own, s_out_writer, s_results>>
  /\ UNCHANGED <<s_handler, s_in_chain, s_args, s_out_ref, s_path>>

\* The AndThen callback on the op chain.
SeqOpChainReady ==
  /\ s_pc = "wait_opchain"
  /\ OpChainWaiterMayRun(s_op_chain)
  /\ s_out_own' = OutChainFromOpChain(s_out_own, s_op_chain)
  /\ s_out_writer' = "op_chain_waiter"
  /\ s_pc' = "done"
  /\ UNCHANGED <<s_handler, s_in_chain, s_args, s_results, s_dispatched,
                 s_op_chain, s_out_ref, s_path>>

\* An input of the kernel becomes available: op_handler, in_chain or
\* argument i.
SeqResolveInput(which, i, st) ==
  /\ s_pc # "idle"
  /\ CASE which = "handler" -> s_handler = "unavailable"
       [] which = "in_chain" -> s_in_chain = "unavailable"
       [] which = "arg" -> i \in DOMAIN s_args /\ s_args[i] = "unavailable"
  /\ s_handler' = IF which = "handler" THEN st ELSE s_handler
  /\ s_in_chain' = IF which = "in_chain" THEN st ELSE s_in_chain
  /\ s_args' = IF which = "arg" THEN [s_args EXCEPT ![i] = st] ELSE s_args
  /\ UNCHANGED <<s_pc, s_results, s_dispatched, s_op_chain, s_out_ref,
                 s_out_own, s_out_writer, s_path>>

\* The dispatched op completes its chain or its result i.
SeqResolveOutput(which, i, st) ==
  /\ s_dispatched > 0
  /\ CASE which = "op_chain" -> s_op_chain = "unavailable"
       [] which = "result" -> /\ i \in DOMAIN s_results
                              /\ s_results[i] = "unavailable"
  /\ s_op_chain' = IF which = "op_chain" THEN st ELSE s_op_chain
  /\ s_results' = IF which = "result" THEN [s_results EXCEPT ![i] = st]
                  ELSE s_results
  /\ UNCHANGED <<s_pc, s_handler, s_in_chain, s_args, s_dispatched,
                 s_out_ref, s_out_own, s_out_writer, s_path>>

SeqNext ==
  \/ \E core_rt \in BOOLEAN, known \in BOOLEAN, handler \in AVStates,
        in_chain \in AVStates,
        args \in UNION {[1..k -> AVStates] : k \in 0..MaxArgs},
        nres \in 0..MaxArgs :
       ExecuteOpSeq(core_rt, known, handler, in_chain, args, nres)
  \/ \E known \in BOOLEAN : SeqArgsReady(known)
  \/ SeqOpChainReady
  \/ \E which \in {"handler", "in_chain", "arg"}, i \in 1..MaxArgs,
        st \in {"concrete", "error"} : SeqResolveInput(which, i, st)
  \/ \E which \in {"op_chain", "result"}, i \in 1..MaxArgs,
        st \in {"concrete", "error"} : SeqResolveOutput(which, i, st)

(***************************************************************************)
(* Async values: states, writes and and_then callbacks                     *)
(***************************************************************************)
\* value 1 is a plain async value, value 2 an indirect one
PlainAV == 1

IndirectAV == 2

AVIds == {PlainAV, IndirectAV}

StateRank(st) ==
  CASE st = "Unconstructed" -> 0
    [] st = "Constructed" -> 1
    [] st = "Concrete" -> 2
    [] st = "Error" -> 2

IsTerminal(st) == st \in {"Concrete", "Error"}

AVInit ==
  /\ a_state = [v \in AVIds |-> "Unconstructed"]
  /\ a_payload = [v \in AVIds |-> 0]
  /\ a_waiters = [v \in AVIds |-> {}]
  /\ a_fwd = 0
  /\ a_pending = [t \in 1..MaxThreads |-> {}]
  /\ a_writer = [v \in AVIds |-> 0]
  /\ a_rejected = FALSE
  /\ cb_av = [c \in 1..MaxCallbacks |-> 0]
  /\ cb_reg = [c \in 1..MaxCallbacks |-> "none"]
  /\ cb_reg_thread = [c \in 1..MaxCallbacks |-> 0]
  /\ cb_at_reg = [c \in 1..MaxCallbacks |-> "none"]
  /\ cb_runs = [c \in 1..MaxCallbacks |-> 0]
  /\ cb_seen = [c \in 1..MaxCallbacks |-> "none"]
  /\ cb_thread = [c \in 1..MaxCallbacks |-> 0]

\* Mutant of the write guard: a terminal value is written again.
WriteAllowed_Always(st) == TRUE

\* A write is permitted only on a value that is not terminal.
WriteAllowed(st) == ~IsTerminal(st)

\* Mutant of the registration: the callback is enqueued even when the value
\* is terminal.
AndThenRunsInline_Never(st) == FALSE

\* and_then runs the callback inline iff it observes a terminal state.
AndThenRunsInline(st) == IsTerminal(st)

\* the values that become terminal when v does: v, and the indirect value
\* if it was forwarded to v
ResolvedWith(v) == {v} \cup (IF a_fwd = v THEN {IndirectAV} ELSE {})

\* The terminal transition of v by thread t: state, payload and the
\* waiters change hands in one atomic step.
Transition(t, v, st, p) ==
  /\ a_state' = [u \in AVIds |-> IF u \in ResolvedWith(v) THEN st
                                  ELSE a_state[u]]
  /\ a_payload' = [u \in AVIds |-> IF u \in ResolvedWith(v) THEN p
                                    ELSE a_payload[u]]
  /\ a_writer' = [u \in AVIds |-> IF u \in ResolvedWith(v) THEN t
                                   ELSE a_writer[u]]
  /\ a_pending' = [a_pending EXCEPT ![t] = @ \cup a_waiters[v]]
  /\ a_waiters' = [a_waiters EXCEPT ![v] = {}]

\* A write on a terminal value is rejected: nothing changes.
RejectWrite ==
  /\ a_rejected' = TRUE
  /\ UNCHANGED <<a_state, a_payload, a_waiters, a_fwd, a_pending, a_writer>>

\* the payload of the plain value is constructed, the value is not yet
\* available
AVConstruct(t, p) ==
  /\ a_pending[t] = {}
  /\ a_state[PlainAV] = "Unconstructed"
  /\ a_state' = [a_state EXCEPT ![PlainAV] = "Constructed"]
  /\ a_payload' = [a_payload EXCEPT ![PlainAV] = p]
  /\ UNCHANGED <<a_waiters, a_fwd, a_pending, a_writer, a_rejected, cb_av,
                 cb_reg, cb_reg_thread, cb_at_reg, cb_runs, cb_seen,
                 cb_thread>>

\* set / emplace on the plain value
AVEmplace(t, p) ==
  /\ a_pending[t] = {}
  /\ IF WriteAllowed(a_state[PlainAV])
       THEN /\ Transition(t, PlainAV, "Concrete", p)
            /\ UNCHANGED <<a_fwd, a_rejected>>
       ELSE RejectWrite
  /\ UNCHANGED <<cb_av, cb_reg, cb_reg_thread, cb_at_reg, cb_runs, cb_seen,
                 cb_thread>>

\* SetError on either value; an indirect value that was forwarded takes no
\* other write
AVSetError(t, v, p) ==
  /\ a_pending[t] = {}
  /\ IF WriteAllowed(a_state[v]) /\ ~(v = IndirectAV /\ a_fwd # 0)
       THEN /\ Transition(t, v, "Error", p)
            /\ UNCHANGED <<a_fwd, a_rejected>>
       ELSE RejectWrite
  /\ UNCHANGED <<cb_av, cb_reg, cb_reg_thread, cb_at_reg, cb_runs, cb_seen,
                 cb_thread>>

\* ForwardTo of the indirect value to the plain one: if the target is
\* terminal the indirect value takes its state, otherwise its waiters become
\* waiters of the target.
AVForwardTo(t) ==
  /\ a_pending[t] = {}
  /\ IF WriteAllowed(a_state[IndirectAV]) /\ a_fwd = 0
       THEN /\ a_fwd' = PlainAV
            /\ IF IsTerminal(a_state[PlainAV])
                 THEN Transition(t, IndirectAV, a_state[PlainAV],
                                 a_payload[PlainAV])
                 ELSE /\ a_waiters' = [a_waiters EXCEPT
                             ![PlainAV] = @ \cup a_waiters[IndirectAV],
                             ![IndirectAV] = {}]
                      /\ UNCHANGED <<a_state, a_payload, a_pending, a_writer>>
            /\ UNCHANGED a_rejected
       ELSE RejectWrite
  /\ UNCHANGED <<cb_av, cb_reg, cb_reg_thread, cb_at_reg, cb_runs, cb_seen,
                 cb_thread>>

\* the value on whose waiter list a callback registered on v is put
WaitersOf(v) == IF v = IndirectAV /\ a_fwd # 0 THEN a_fwd ELSE v

\* and_then(c) on value v by thread t: one atomic step that either sees the
\* terminal state and runs c, or enqueues c.  Callbacks are numbered in the
\* order of their registration.
AVAndThen(t, v, c) ==
  /\ a_pending[t] = {}
  /\ cb_reg[c] = "none"
  /\ \A d \in 1..(c - 1) : cb_reg[d] # "none"
  /\ cb_av' = [cb_av EXCEPT ![c] = v]
  /\ cb_reg_thread' = [cb_reg_thread EXCEPT ![c] = t]
  /\ cb_at_reg' = [cb_at_reg EXCEPT ![c] = a_state[v]]
  /\ IF AndThenRunsInline(a_state[v])
       THEN /\ cb_reg' = [cb_reg EXCEPT ![c] = "inline"]
            /\ cb_runs' = [cb_runs EXCEPT ![c] = @ + 1]
            /\ cb_seen' = [cb_seen EXCEPT ![c] = a_state[v]]
            /\ cb_thread' = [cb_thread EXCEPT ![c] = t]
            /\ UNCHANGED a_waiters
       ELSE /\ cb_reg' = [cb_reg EXCEPT ![c] = "enqueued"]
            /\ a_waiters' = [a_waiters EXCEPT ![WaitersOf(v)] = @ \cup {c}]
            /\ UNCHANGED <<cb_runs, cb_seen, cb_thread>>
  /\ UNCHANGED <<a_state, a_payload, a_fwd, a_pending, a_writer, a_rejected>>

\* The thread that made the transition runs one of the callbacks it took.
AVRunCallback(t, c) ==
  /\ c \in a_pending[t]
  /\ a_pending' = [a_pending EXCEPT ![t] = @ \ {c}]
  /\ cb_runs' = [cb_runs EXCEPT ![c] = @ + 1]
  /\ cb_seen' = [cb_seen EXCEPT ![c] = a_state[cb_av[c]]]
  /\ cb_thread' = [cb_thread EXCEPT ![c] = t]
  /\ UNCHANGED <<a_state, a_payload, a_waiters, a_fwd, a_writer, a_rejected,
                 cb_av, cb_reg, cb_reg_thread, cb_at_reg>>

\* Threads and payloads are numbered in the order in which they first leave
\* a trace in the state: a thread or a payload the state does not hold is
\* the least such one.
AVThreads ==
  LET used == {a_writer[v] : v \in AVIds}
                \cup {cb_reg_thread[c] : c \in 1..MaxCallbacks}
                \cup {cb_thread[c] : c \in 1..MaxCallbacks}
  IN {t \in 1..MaxThreads : \A d \in 1..(t - 1) : d \in used}

AVPayloads ==
  {p \in 1..MaxPayload :
     \A q \in 1..(p - 1) : \E v \in AVIds : a_payload[v] = q}

AVNext ==
  \/ \E t \in AVThreads, p \in AVPayloads : AVConstruct(t, p)
  \/ \E t \in AVThreads, p \in AVPayloads : AVEmplace(t, p)
  \/ \E t \in AVThreads, v \in AVIds, p \in AVPayloads : AVSetError(t, v, p)
  \/ \E t \in AVThreads : AVForwardTo(t)
  \/ \E t \in AVThreads, v \in AVIds, c \in 1..MaxCallbacks :
       AVAndThen(t, v, c)
  \/ \E t \in AVThreads, c \in 1..MaxCallbacks : AVRunCallback(t, c)

(***************************************************************************)
(* MLIR to BEF converter: strings, bytes and the IR                        *)
(***************************************************************************)
\* The strings of the modules converted, as sequences of byte values.
Str(text) ==
  CASE text = "" -> <<>>
    [] text = "a" -> <<97>>
    [] text = "a.k" -> <<97, 46, 107>>
    [] text = "b" -> <<98>>
    [] text = "b.k" -> <<98, 46, 107>>
    [] text = "f" -> <<102>>
    [] text = "f32" -> <<102, 51, 50>>
    [] text = "g" -> <<103>>
    [] text = "i1" -> <<105, 49>>
    [] text = "i32" -> <<105, 51, 50>>
    [] text = "i64" -> <<105, 54, 52>>
    [] text = "i8" -> <<105, 56>>
    [] text = "m" -> <<109>>
    [] text = "main" -> <<109, 97, 105, 110>>
    [] text = "n" -> <<110>>
    [] text = "v" -> <<118>>
    [] text = "w" -> <<119>>
    [] text = "x" -> <<120>>
    [] text = "_tfrt_cost" ->
         <<95, 116, 102, 114, 116, 95, 99, 111, 115, 116>>
    [] text = "bef.nonstrict" ->
         <<98, 101, 102, 46, 110, 111, 110, 115, 116, 114, 105, 99, 116>>
    [] text = "tfrt.return" ->
         <<116, 102, 114, 116, 46, 114, 101, 116, 117, 114, 110>>

\* mlir::Type::print: a type is identified with its printed form, Str("i1"),
\* Str("i8"), Str("i32"), Str("i64") or Str("f32")
PrintType(ty) == ty

\* Locations: kind is unknown, flc (FileLineColLoc), name (NameLoc), fused
\* (FusedLoc, with children) or callsite (CallSiteLoc, children[1] is the
\* callee).
Loc(kind, file, line, col, name, children) ==
  [kind |-> kind, file |-> Str(file), line |-> line, col |-> col,
   name |-> Str(name), children |-> children]

\* A named attribute.  kind is int (an IntegerAttr ival of the integer
\* type ty), float (a FloatAttr ival of the float type ty), array (an
\* ArrayAttr of the attribute values elems, symbol references among
\* them), sym (a SymbolRefAttr to sval) or unsupported.  An attribute has
\* one representation: attributes are equal in the code exactly when
\* their values here are equal.
NamedAttr(name, kind, ty, ival, sval, elems) ==
  [name |-> Str(name),
   value |-> [kind |-> kind, ty |-> Str(ty), ival |-> ival,
              sval |-> Str(sval), elems |-> elems]]

\* Values: the result idx of operation def (def > 0), or the block argument
\* idx (def = 0) of region reg of operation owner.
Value(def, idx, owner, reg) ==
  [def |-> def, idx |-> idx, owner |-> owner, reg |-> reg]

\* Operations, listed in program order.  parent = 0: at the top level of
\* the module, otherwise in the block of region `region` of operation
\* parent.  args and nblocks have one entry per region of the operation;
\* fnresults are the declared results of a native function.
Operation(kind, name, parent, operands, results, attrs, loc) ==
  [kind |-> kind, name |-> Str(name), parent |-> parent,
   region |-> IF parent = 0 THEN 0 ELSE 1, native |-> FALSE, sync |-> FALSE,
   args |-> IF kind = "func" THEN << <<>> >> ELSE <<>>,
   nblocks |-> IF kind = "func" THEN <<1>> ELSE <<>>,
   operands |-> operands, results |-> results, fnresults |-> <<>>,
   attrs |-> attrs, loc |-> loc]

\* The modules converted.
\* 1: one function whose kernels repeat a kernel name, a type and an
\*    attribute, at different locations.
\* 2: a kernel refers to another function by a symbol reference and carries
\*    the non-strict marker.
\* 3: a native function, and a kernel with a region.
\* 4: a symbol reference to a function the module does not define.
\* 5: an attribute BEF cannot encode, and an external function.
\* 6: two kernels with a region each, the first one referring to a function
\*    the module defines later.
\* 7: a return that is not the last operation of its block, a function that
\*    does not end in a return, and a function of two blocks.
\* 8: a kernel in a region whose operand is defined in the enclosing region.
\* 9: an array of symbol references names a function the module does not
\*    define.
\* 10: a function of two arguments: a non-strict kernel with two operands,
\*    a kernel without operands, and a kernel that uses a value twice.
\* 11: a sync function that returns its argument.
\* 12: a sync function that returns a value twice.
\* 13: a function marked native and sync, and a function not marked sync
\*    that returns its argument twice and the result of a kernel.
\* 14: a kernel whose region does not end in a return.
\* 15: attributes of a 64-bit integer type and of a float type and
\*    arrays of attributes, of an 8-bit integer type among them, one array
\*    beginning with a symbol reference and one holding it second, on a
\*    kernel placed before an external function.
\* 16: an array of a symbol reference to a function of the module and of
\*    an integer.
IRs ==
  LET unknown == Loc("unknown", "", 0, 0, "", <<>>)
      int(name, ty, v) == NamedAttr(name, "int", ty, v, "", <<>>)
      sym(name) == NamedAttr("", "sym", "", 0, name, <<>>).value
  IN
  << << [Operation("func", "main", 0, <<>>, <<>>, <<>>,
                   Loc("flc", "x", 1, 1, "", <<>>))
           EXCEPT !.args = << <<Str("i32")>> >>],
        Operation("kernel", "a.k", 1, <<Value(0, 1, 1, 1)>>, <<Str("i32")>>,
                  <<int("v", "i32", 1)>>,
                  Loc("fused", "", 0, 0, "",
                      <<Loc("name", "", 0, 0, "n", <<>>),
                        Loc("flc", "x", 2, 3, "", <<>>)>>)),
        Operation("kernel", "b.k", 1, <<Value(2, 1, 0, 0)>>, <<Str("f32")>>,
                  <<int("v", "i32", 1), int("_tfrt_cost", "i32", 2)>>,
                  Loc("flc", "b", 3, 1, "", <<>>)),
        Operation("kernel", "a.k", 1, <<Value(2, 1, 0, 0)>>, <<Str("i32")>>,
                  <<>>, Loc("name", "", 0, 0, "m", <<>>)),
        Operation("return", "tfrt.return", 1, <<Value(3, 1, 0, 0)>>, <<>>,
                  <<>>, unknown) >>,
     << [Operation("func", "f", 0, <<>>, <<>>, <<>>, unknown)
           EXCEPT !.sync = TRUE],
        Operation("kernel", "b.k", 1, <<>>, <<Str("i1")>>,
                  <<int("v", "i1", 1)>>,
                  Loc("callsite", "", 0, 0, "",
                      <<Loc("name", "", 0, 0, "n", <<>>)>>)),
        Operation("return", "tfrt.return", 1, <<Value(2, 1, 0, 0)>>, <<>>,
                  <<>>, unknown),
        Operation("func", "main", 0, <<>>, <<>>, <<>>,
                  Loc("flc", "b", 1, 1, "", <<>>)),
        Operation("kernel", "a.k", 4, <<>>, <<Str("i1")>>,
                  <<NamedAttr("f", "sym", "", 0, "f", <<>>),
                    int("bef.nonstrict", "i1", 1),
                    NamedAttr("g", "array", "", 0, "", <<sym("f")>>)>>,
                  Loc("flc", "b", 2, 1, "", <<>>)),
        Operation("return", "tfrt.return", 4, <<>>, <<>>, <<>>, unknown) >>,
     << [Operation("func", "g", 0, <<>>, <<>>, <<>>, unknown)
           EXCEPT !.native = TRUE, !.args = << <<Str("f32")>> >>,
                  !.nblocks = <<0>>, !.fnresults = <<Str("i1")>>],
        Operation("func", "main", 0, <<>>, <<>>, <<>>,
                  Loc("flc", "x", 1, 1, "", <<>>)),
        [Operation("kernel", "a.k", 2, <<>>, <<>>, <<>>,
                   Loc("flc", "x", 2, 1, "", <<>>))
           EXCEPT !.args = << <<Str("i32")>> >>, !.nblocks = <<1>>],
        Operation("kernel", "b.k", 3, <<Value(0, 1, 3, 1)>>, <<Str("i32")>>,
                  <<>>, Loc("name", "", 0, 0, "n", <<>>)),
        Operation("return", "tfrt.return", 3, <<Value(4, 1, 0, 0)>>, <<>>,
                  <<>>, unknown),
        Operation("return", "tfrt.return", 2, <<>>, <<>>, <<>>, unknown) >>,
     << Operation("func", "main", 0, <<>>, <<>>, <<>>, unknown),
        Operation("kernel", "a.k", 1, <<>>, <<>>,
                  <<NamedAttr("f", "sym", "", 0, "g", <<>>)>>, unknown),
        Operation("return", "tfrt.return", 1, <<>>, <<>>, <<>>, unknown) >>,
     << Operation("func", "main", 0, <<>>, <<>>, <<>>, unknown),
        Operation("kernel", "a.k", 1, <<>>, <<>>,
                  <<NamedAttr("v", "unsupported", "", 0, "", <<>>)>>,
                  unknown),
        Operation("return", "tfrt.return", 1, <<>>, <<>>, <<>>, unknown),
        [Operation("func", "f", 0, <<>>, <<>>, <<>>, unknown)
           EXCEPT !.nblocks = <<0>>] >>,
     << Operation("func", "main", 0, <<>>, <<>>, <<>>,
                  Loc("flc", "x", 1, 1, "", <<>>)),
        [Operation("kernel", "a.k", 1, <<>>, <<>>,
                   <<NamedAttr("f", "sym", "", 0, "g", <<>>)>>,
                   Loc("flc", "x", 2, 1, "", <<>>))
           EXCEPT !.args = << <<>> >>, !.nblocks = <<1>>],
        Operation("return", "tfrt.return", 2, <<>>, <<>>, <<>>, unknown),
        [Operation("kernel", "b.k", 1, <<>>, <<>>, <<>>,
                   Loc("name", "", 0, 0, "n", <<>>))
           EXCEPT !.args = << <<>> >>, !.nblocks = <<1>>],
        Operation("return", "tfrt.return", 4, <<>>, <<>>, <<>>, unknown),
        Operation("return", "tfrt.return", 1, <<>>, <<>>, <<>>, unknown),
        Operation("func", "g", 0, <<>>, <<>>, <<>>, unknown),
        Operation("return", "tfrt.return", 7, <<>>, <<>>, <<>>, unknown) >>,
     << Operation("func", "main", 0, <<>>, <<>>, <<>>, unknown),
        Operation("return", "tfrt.return", 1, <<>>, <<>>, <<>>, unknown),
        Operation("kernel", "b.k", 1, <<>>, <<>>, <<>>, unknown),
        [Operation("func", "g", 0, <<>>, <<>>, <<>>, unknown)
           EXCEPT !.nblocks = <<2>>],
        Operation("return", "tfrt.return", 4, <<>>, <<>>, <<>>, unknown) >>,
     << [Operation("func", "f", 0, <<>>, <<>>, <<>>, unknown)
           EXCEPT !.args = << <<Str("i32")>> >>],
        [Operation("kernel", "a.k", 1, <<>>, <<>>, <<>>, unknown)
           EXCEPT !.args = << <<>> >>, !.nblocks = <<1>>],
        Operation("kernel", "b.k", 2, <<Value(0, 1, 1, 1)>>, <<>>, <<>>,
                  unknown),
        Operation("return", "tfrt.return", 2, <<>>, <<>>, <<>>, unknown),
        Operation("return", "tfrt.return", 1, <<>>, <<>>, <<>>, unknown) >>,
     << Operation("func", "main", 0, <<>>, <<>>, <<>>, unknown),
        Operation("kernel", "a.k", 1, <<>>, <<>>,
                  <<NamedAttr("g", "array", "", 0, "", <<sym("g")>>)>>,
                  unknown),
        Operation("return", "tfrt.return", 1, <<>>, <<>>, <<>>, unknown) >>,
     << [Operation("func", "main", 0, <<>>, <<>>, <<>>,
                   Loc("flc", "x", 1, 1, "", <<>>))
           EXCEPT !.args = << <<Str("i32"), Str("i32")>> >>],
        Operation("kernel", "a.k", 1, <<Value(0, 1, 1, 1), Value(0, 2, 1, 1)>>,
                  <<Str("i32")>>, <<int("bef.nonstrict", "i1", 1)>>,
                  Loc("name", "", 0, 0, "n", <<>>)),
        Operation("kernel", "b.k", 1, <<>>, <<Str("i32")>>,
                  <<int("v", "i32", 1)>>, unknown),
        Operation("kernel", "a.k", 1,
                  <<Value(2, 1, 0, 0), Value(3, 1, 0, 0), Value(3, 1, 0, 0)>>,
                  <<>>, <<>>, unknown),
        Operation("return", "tfrt.return", 1, <<Value(2, 1, 0, 0)>>, <<>>,
                  <<>>, unknown) >>,
     << [Operation("func", "f", 0, <<>>, <<>>, <<>>, unknown)
           EXCEPT !.sync = TRUE, !.args = << <<Str("i32")>> >>],
        Operation("kernel", "a.k", 1, <<Value(0, 1, 1, 1)>>, <<Str("i32")>>,
                  <<>>, unknown),
        Operation("return", "tfrt.return", 1,
                  <<Value(2, 1, 0, 0), Value(0, 1, 1, 1)>>, <<>>, <<>>,
                  unknown) >>,
     << [Operation("func", "f", 0, <<>>, <<>>, <<>>, unknown)
           EXCEPT !.sync = TRUE],
        Operation("kernel", "b.k", 1, <<>>, <<Str("i32"), Str("i1")>>, <<>>,
                  unknown),
        Operation("return", "tfrt.return", 1,
                  <<Value(2, 1, 0, 0), Value(2, 2, 0, 0), Value(2, 1, 0, 0)>>,
                  <<>>, <<>>, unknown) >>,
     << [Operation("func", "g", 0, <<>>, <<>>, <<>>, unknown)
           EXCEPT !.native = TRUE, !.sync = TRUE,
                  !.args = << <<Str("i32")>> >>, !.nblocks = <<0>>,
                  !.fnresults = <<Str("i32")>>],
        [Operation("func", "main", 0, <<>>, <<>>, <<>>, unknown)
           EXCEPT !.args = << <<Str("i32")>> >>],
        Operation("kernel", "a.k", 2, <<Value(0, 1, 2, 1)>>, <<Str("i32")>>,
                  <<>>, unknown),
        Operation("return", "tfrt.return", 2,
                  <<Value(0, 1, 2, 1), Value(3, 1, 0, 0), Value(0, 1, 2, 1)>>,
                  <<>>, <<>>, unknown) >>,
     << [Operation("func", "main", 0, <<>>, <<>>, <<>>, unknown)
           EXCEPT !.args = << <<Str("i32")>> >>],
        [Operation("kernel", "a.k", 1, <<>>, <<>>, <<>>, unknown)
           EXCEPT !.args = << <<Str("f32")>> >>, !.nblocks = <<1>>],
        Operation("kernel", "b.k", 2, <<Value(0, 1, 2, 1)>>, <<Str("i1")>>,
                  <<>>, unknown),
        Operation("kernel", "b.k", 2, <<Value(3, 1, 0, 0), Value(0, 1, 2, 1)>>,
                  <<>>, <<>>, unknown),
        Operation("return", "tfrt.return", 1, <<>>, <<>>, <<>>, unknown) >>,
     << Operation("func", "main", 0, <<>>, <<>>, <<>>, unknown),
        Operation("kernel", "a.k", 1, <<>>, <<>>,
                  <<int("v", "i64", 5),
                    NamedAttr("w", "float", "f32", 1, "", <<>>),
                    NamedAttr("a", "array", "", 0, "",
                              <<int("v", "i8", 5).value,
                                int("v", "i64", 5).value,
                                NamedAttr("w", "float", "f32", 2, "",
                                          <<>>).value>>),
                    NamedAttr("b", "array", "", 0, "",
                              <<sym("f"), int("v", "i32", 1).value>>),
                    NamedAttr("n", "array", "", 0, "",
                              <<int("v", "i32", 1).value, sym("f")>>)>>,
                  unknown),
        Operation("return", "tfrt.return", 1, <<>>, <<>>, <<>>, unknown),
        [Operation("func", "f", 0, <<>>, <<>>, <<>>, unknown)
           EXCEPT !.nblocks = <<0>>] >>,
     << Operation("func", "main", 0, <<>>, <<>>, <<>>, unknown),
        Operation("kernel", "a.k", 1, <<>>, <<>>,
                  <<NamedAttr("b", "array", "", 0, "",
                              <<sym("f"), int("v", "i32", 1).value>>)>>,
                  unknown),
        Operation("return", "tfrt.return", 1, <<>>, <<>>, <<>>, unknown),
        Operation("func", "f", 0, <<>>, <<>>, <<>>, unknown),
        Operation("return", "tfrt.return", 4, <<>>, <<>>, <<>>, unknown) >> >>

\* the operations of the blocks of the given regions of operation p, in
\* order
BlockOps(ir, p, regions) ==
  LET InBlock(i) == ir[i].parent = p /\ ir[i].region \in regions
  IN SelectSeq([i \in 1..Len(ir) |-> i], InBlock)

\* module.walk: the operations nested under the given ones and these
\* operations themselves, post-order
RECURSIVE WalkOps(_, _)
WalkOps(ir, ops) ==
  IF ops = <<>> THEN <<>>
  ELSE WalkOps(ir, BlockOps(ir, Head(ops), 1..Len(ir[Head(ops)].nblocks)))
         \o <<Head(ops)>> \o WalkOps(ir, Tail(ops))

walk(ir) == WalkOps(ir, BlockOps(ir, 0, {0}))

\* mlir::Value::getType
TypeOf(ir, v) ==
  IF v.def > 0 THEN ir[v.def].results[v.idx]
  ELSE ir[v.owner].args[v.reg][v.idx]

\* mlir::Value::getParentRegion, as <<operation, region>>
ValueRegion(ir, v) ==
  IF v.def > 0 THEN <<ir[v.def].parent, ir[v.def].region>>
  ELSE <<v.owner, v.reg>>

IsReturn(op) == op.name = Str("tfrt.return")

\* GetRegionFunctionType: the block arguments and the operands of the
\* last operation of the block, which assert(IsReturn(&last_op)) takes to
\* be a return.  Where it is not, a build with asserts stops the process
\* (kind "abort"); a build with NDEBUG goes on with the operands of that
\* operation.
GetRegionFunctionType(ir, p, r, ndebug) ==
  LET ops == BlockOps(ir, p, {r})
      last_op == ir[ops[Len(ops)]]
  IN IF ~IsReturn(last_op) /\ ~ndebug
       THEN [kind |-> "abort", inputs |-> <<>>, results |-> <<>>]
       ELSE [kind |-> "value",
             inputs |-> ir[p].args[r],
             results |-> [k \in 1..Len(last_op.operands) |->
                            TypeOf(ir, last_op.operands[k])]]

(***************************************************************************)
(* EntityTable                                                             *)
(***************************************************************************)
\* a map with no key
EmptyMap == [k \in {} |-> 0]

\* the table after construction; aborted: an assert has stopped the
\* process while the table was being filled
EmptyEntityTable ==
  [attributes |-> <<>>,
   kernels |-> <<>>,
   kernel_ids |-> EmptyMap,
   functions |-> <<>>,
   region_function_ids |-> EmptyMap,
   named_function_ids |-> EmptyMap,
   types |-> <<>>,
   type_ids |-> EmptyMap,
   strings |-> {},
   location_filenames |-> <<>>,
   location_filenames_index |-> EmptyMap,
   location_positions |-> EmptyMap,
   debug_info |-> EmptyMap,
   aborted |-> FALSE]

\* map[key] = value
MapSet(map, key, value) ==
  [k \in DOMAIN map \cup {key} |-> IF k = key THEN value ELSE map[k]]

\* EntityTable::AddString
AddString(e, string) == [e EXCEPT !.strings = @ \cup {string}]

\* Mutant of AddType: the type is appended without looking it up.
AddType_NoLookup(e, type) ==
  AddString([e EXCEPT !.type_ids = MapSet(@, type, Len(e.types)),
                      !.types = Append(@, type)],
            PrintType(type))

\* EntityTable::AddType
AddType(e, type) ==
  IF type \in DOMAIN e.type_ids THEN e
  ELSE AddString([e EXCEPT !.type_ids = MapSet(@, type, Len(e.types)),
                           !.types = Append(@, type)],
                 PrintType(type))

RECURSIVE AddTypes(_, _)
AddTypes(e, types) ==
  IF types = <<>> THEN e
  ELSE AddTypes(AddType(e, Head(types)), Tail(types))

\* EntityTable::AddNativeFunction; the entry has no region
AddNativeFunction(e, op) ==
  LET e1 == AddString(AddTypes(AddTypes(e, op.args[1]), op.fnresults),
                      op.name)
  IN [e1 EXCEPT
        !.named_function_ids = MapSet(@, op.name, Len(e1.functions)),
        !.functions = Append(@,
           [name |-> op.name, inputs |-> op.args[1],
            results |-> op.fnresults, kind |-> "kNativeFunction",
            region |-> <<0, 0>>])]

\* Mutant of AddFunction: the name is not entered in named_function_ids.
AddFunction_NoNameId(e, ir, p, r, name, func_kind, ndebug) ==
  LET e1 == AddString(AddTypes(e, ir[p].args[r]), name)
      type == GetRegionFunctionType(ir, p, r, ndebug)
  IN IF type.kind = "abort" THEN [e1 EXCEPT !.aborted = TRUE]
     ELSE
     [e1 EXCEPT
        !.region_function_ids = MapSet(@, <<p, r>>, Len(e1.functions)),
        !.functions = Append(@,
           [name |-> name, inputs |-> type.inputs, results |-> type.results,
            kind |-> func_kind, region |-> <<p, r>>])]

\* EntityTable::AddFunction, for a region with a single block
AddFunction(e, ir, p, r, name, func_kind, ndebug) ==
  LET e1 == AddString(AddTypes(e, ir[p].args[r]), name)
      type == GetRegionFunctionType(ir, p, r, ndebug)
  IN IF type.kind = "abort" THEN [e1 EXCEPT !.aborted = TRUE]
     ELSE
     [e1 EXCEPT
        !.region_function_ids = MapSet(@, <<p, r>>, Len(e1.functions)),
        !.named_function_ids = MapSet(@, name, Len(e1.functions)),
        !.functions = Append(@,
           [name |-> name, inputs |-> type.inputs, results |-> type.results,
            kind |-> func_kind, region |-> <<p, r>>])]

\* EntityTable::GetFunctionNamed
GetFunctionNamed(e, name) ==
  IF name \in DOMAIN e.named_function_ids THEN e.named_function_ids[name]
  ELSE -1

\* EntityTable::AddKernel
AddKernel(e, name) ==
  IF name \in DOMAIN e.kernel_ids THEN e
  ELSE AddString([e EXCEPT !.kernel_ids = MapSet(@, name, Len(e.kernels)),
                           !.kernels = Append(@, name)],
                 name)

\* llvm::SetVector::insert on the attributes
InsertAttribute(e, value) ==
  IF \E k \in DOMAIN e.attributes : e.attributes[k] = value THEN e
  ELSE [e EXCEPT !.attributes = Append(@, value)]

\* the first child of a FusedLoc of the given kind, or the location itself
FirstChildOfKind(loc, kind) ==
  IF loc.kind = "fused" /\ \E k \in DOMAIN loc.children :
                             loc.children[k].kind = kind
    THEN LET k == CHOOSE k \in DOMAIN loc.children :
                    /\ loc.children[k].kind = kind
                    /\ \A j \in 1..(k - 1) : loc.children[j].kind # kind
         IN loc.children[k]
    ELSE loc

\* EntityTable::AddDebugInfo
AddDebugInfo(e, op, i) ==
  LET fused == FirstChildOfKind(op.loc, "name")
      debug_info_location ==
        IF op.loc.kind = "callsite" /\ op.loc.children[1].kind = "name"
          THEN op.loc.children[1]
          ELSE fused
  IN IF debug_info_location.kind = "name"
       THEN [e EXCEPT !.debug_info = MapSet(@, i, debug_info_location.name)]
       ELSE e

\* EntityTable::AddLocation
AddLocation(e, op, i) ==
  LET loc == FirstChildOfKind(op.loc, "flc")
      filename == IF loc.kind = "flc" THEN loc.file ELSE Str("")
      line == IF loc.kind = "flc" THEN loc.line ELSE 0
      col == IF loc.kind = "flc" THEN loc.col ELSE 0
      next_filename_index == Len(e.location_filenames)
      known == filename \in DOMAIN e.location_filenames_index
      index == IF known THEN e.location_filenames_index[filename]
               ELSE next_filename_index
  IN [e EXCEPT
        !.location_filenames_index =
            IF known THEN @ ELSE MapSet(@, filename, next_filename_index),
        !.location_filenames = IF known THEN @ ELSE Append(@, filename),
        !.location_positions = MapSet(@, i, <<index, line, col>>)]

\* EntityTable::AddAttributeType: the type of an attribute of an integer
\* type and the type of a float attribute are added, and so are those of
\* the elements of an array, one after the other; a symbol reference, in
\* an array or not, has no integer or float type
RECURSIVE AddAttributeType(_, _)
AddAttributeType(e, value) ==
  LET RECURSIVE Elements(_, _)
      Elements(t, k) ==
        IF k > Len(value.elems) THEN t
        ELSE Elements(AddAttributeType(t, value.elems[k]), k + 1)
  IN CASE value.kind = "int" -> AddType(e, value.ty)
       [] value.kind = "float" -> AddType(e, value.ty)
       [] value.kind = "array" -> Elements(e, 1)
       [] OTHER -> e

(***************************************************************************)
(* EntityTable::Collect                                                    *)
(***************************************************************************)
\* Mutant of the report of a fatal condition: a second report resets the
\* result.
EmitError_Resets(st, e, msg, i) ==
  [e |-> e,
   result |-> IF st.result = "Failure" THEN "Success" ELSE "Failure",
   fn_attrs |-> st.fn_attrs,
   diags |-> Append(st.diags, [msg |-> msg, op |-> i])]

\* op->emitError() << msg; result = LogicalResult::Failure, on the state
\* st the walk callback works on, the entity table being e
EmitError(st, e, msg, i) ==
  [e |-> e, result |-> "Failure", fn_attrs |-> st.fn_attrs,
   diags |-> Append(st.diags, [msg |-> msg, op |-> i])]

\* BefAttrEmitter::ClassifyAttribute(name) != SpecialAttribute::kUnknown
IsSpecialAttribute(name) == name = Str("bef.nonstrict")

\* BefAttrEmitter::IsSupportedAttribute
IsSupportedAttribute(value) == value.kind # "unsupported"

\* An array of function attributes: an ArrayAttr that is not empty and
\* whose first element is a symbol reference.
IsFunctionArray(value) ==
  /\ value.kind = "array"
  /\ value.elems # <<>>
  /\ value.elems[1].kind = "sym"

\* The loop over the attributes of kernel i, from attribute k on.  The
\* outcome carries returned = TRUE when the callback returned in the loop.
RECURSIVE CollectAttrs(_, _, _, _, _)
CollectAttrs(ir, i, k, st, collect_attribute_types_and_names) ==
  IF k > Len(ir[i].attrs) THEN [st |-> st, returned |-> FALSE]
  ELSE
    LET attr == ir[i].attrs[k]
        next(s) == CollectAttrs(ir, i, k + 1, s,
                                collect_attribute_types_and_names)
    IN IF attr.name = Str("_tfrt_cost") THEN next(st)
       ELSE IF IsSpecialAttribute(attr.name) THEN next(st)
       ELSE IF ~IsSupportedAttribute(attr.value) /\ st.result = "Success"
         THEN [st |-> EmitError(st, st.e, "BEF files cannot encode the attribute", i),
               returned |-> TRUE]
       ELSE IF attr.value.kind = "sym"
         THEN next([st EXCEPT !.fn_attrs =
                       Append(@, [name |-> attr.value.sval, op |-> i])])
       ELSE
         LET e1 == IF collect_attribute_types_and_names
                     THEN AddAttributeType(AddString(st.e, attr.name),
                                           attr.value)
                     ELSE st.e
         IN IF IsFunctionArray(attr.value)
              THEN next([st EXCEPT !.e = e1])
              ELSE next([st EXCEPT !.e = InsertAttribute(e1, attr.value)])

\* The loop over the regions of kernel i, from region r on; it ends where
\* the process stops.
RECURSIVE CollectRegions(_, _, _, _, _)
CollectRegions(ir, i, r, st, ndebug) ==
  IF r > Len(ir[i].nblocks) \/ st.e.aborted THEN st
  ELSE IF ir[i].nblocks[r] # 1
    THEN EmitError(st, st.e,
                   "multi-block regions cannot be emitted to BEF files", i)
  ELSE CollectRegions(ir, i, r + 1,
         [st EXCEPT !.e = AddFunction(@, ir, i, r, Str(""),
                                      "kBEFFunction", ndebug)],
         ndebug)

\* Mutant of the check of a sync function: a value returned twice is
\* accepted.
BadSyncReturnOperand_ArgumentsOnly(last_op) ==
  LET bad(k) == last_op.operands[k].def = 0
  IN IF \E k \in DOMAIN last_op.operands : bad(k)
       THEN CHOOSE k \in DOMAIN last_op.operands :
              bad(k) /\ \A j \in 1..(k - 1) : ~bad(j)
       ELSE 0

\* the first return operand a sync function may not have: 0 if none
BadSyncReturnOperand(last_op) ==
  LET bad(k) == \/ last_op.operands[k].def = 0
                \/ \E j \in 1..(k - 1) :
                     last_op.operands[j] = last_op.operands[k]
  IN IF \E k \in DOMAIN last_op.operands : bad(k)
       THEN CHOOSE k \in DOMAIN last_op.operands :
              bad(k) /\ \A j \in 1..(k - 1) : ~bad(j)
       ELSE 0

\* The callback of module.walk on operation i.
CollectOp(ir, i, st, collect_attribute_types_and_names, ndebug) ==
  LET op == ir[i]
      block == BlockOps(ir, op.parent, {op.region})
      e1 == AddTypes(AddDebugInfo(AddLocation(st.e, op, i), op, i),
                     op.results)
      body == BlockOps(ir, i, {1})
      last_op == ir[body[Len(body)]]
      bad == BadSyncReturnOperand(last_op)
  IN
  IF IsReturn(op)
    THEN IF block[Len(block)] # i
           THEN EmitError(st, st.e,
                          "return op must be at the end of its block", i)
           ELSE st
  ELSE IF \E k \in DOMAIN op.operands :
            ValueRegion(ir, op.operands[k]) # <<op.parent, op.region>>
    THEN EmitError(st, e1,
           "BEF executor only supports references to kernels within the current region",
           i)
  ELSE IF op.kind = "func"
    THEN IF op.native
           THEN [st EXCEPT !.e = AddNativeFunction(e1, op)]
         ELSE IF op.nblocks[1] = 0
           THEN EmitError(st, e1, "external functions are not allowed", i)
         ELSE IF ~IsReturn(last_op)
           THEN EmitError(st, e1, "all functions need to have a tfrt.return",
                          body[Len(body)])
         ELSE IF op.sync /\ bad # 0
           THEN EmitError(st, e1,
                  IF last_op.operands[bad].def = 0
                    THEN "return value is an argument in a sync function"
                    ELSE "return value is duplicated in a sync function",
                  body[Len(body)])
         ELSE IF op.nblocks[1] # 1
           THEN EmitError(st, e1,
                  "multi-block regions cannot be emitted to BEF files", i)
         ELSE [st EXCEPT !.e =
                 AddFunction(e1, ir, i, 1, op.name,
                             IF op.sync THEN "kSyncBEFFunction"
                             ELSE "kBEFFunction", ndebug)]
  ELSE
    LET attrs == CollectAttrs(ir, i, 1,
                              [st EXCEPT !.e = AddKernel(e1, op.name)],
                              collect_attribute_types_and_names)
    IN IF attrs.returned THEN attrs.st
       ELSE CollectRegions(ir, i, 1, attrs.st, ndebug)

\* the first function reference that names no function: 0 if none
FirstUndefined(e, fn_attrs) ==
  LET undefined(k) == GetFunctionNamed(e, fn_attrs[k].name) = -1
  IN IF \E k \in DOMAIN fn_attrs : undefined(k)
       THEN CHOOSE k \in DOMAIN fn_attrs :
              undefined(k) /\ \A j \in 1..(k - 1) : ~undefined(j)
       ELSE 0

\* The end of Collect: every function reference must name a function.
CollectResult(st) ==
  LET k == FirstUndefined(st.e, st.fn_attrs)
  IN IF st.result = "Success" /\ k # 0
       THEN EmitError(st, st.e, "function not defined", st.fn_attrs[k].op)
       ELSE st
(***************************************************************************)
(* The byte emitter and the sections                                       *)
(***************************************************************************)
\* an emitter: the bytes emitted and the alignment they require
EmptyEmitter == [bytes |-> <<>>, alignment |-> 1]

EmitByte(em, byte) == [em EXCEPT !.bytes = Append(@, byte)]

EmitBytes(em, bytes) == [em EXCEPT !.bytes = @ \o bytes]

\* a variable-byte integer: groups of 7 bits, highest first, every group
\* but the last (low = 0) with the continuation bit (low = 128)
RECURSIVE VbrInt(_, _)
VbrInt(value, low) ==
  (IF value >= 128 THEN VbrInt(value \div 128, 128) ELSE <<>>)
    \o <<low + (value % 128)>>

EmitVbrInt(em, value) == EmitBytes(em, VbrInt(value, 0))

\* zero bytes up to the next multiple of alignment
EmitAlignment(em, alignment) ==
  [bytes |-> em.bytes \o
       [k \in 1..((alignment - (Len(em.bytes) % alignment)) % alignment)
          |-> 0],
   alignment |-> IF alignment > em.alignment THEN alignment
                 ELSE em.alignment]

\* a 32-bit integer, little-endian, on a 4-byte boundary
EmitInt4(em, value) ==
  EmitBytes(EmitAlignment(em, 4),
            <<value % 256, (value \div 256) % 256,
              (value \div 65536) % 256, (value \div 16777216) % 256>>)

\* BEFSectionID
BEFSectionID(section) ==
  CASE section = "kLocationFilenames" -> 1
    [] section = "kLocationPositions" -> 2
    [] section = "kDebugInfo" -> 3
    [] section = "kStrings" -> 4
    [] section = "kAttributes" -> 5
    [] section = "kKernels" -> 6
    [] section = "kTypes" -> 7
    [] section = "kFunctionIndex" -> 8
    [] section = "kFunctions" -> 9
    [] section = "kAttributeTypes" -> 10
    [] section = "kAttributeNames" -> 11
    [] section = "kRegisterTypes" -> 12

\* Mutant of EmitSection: the alignment the section requires is ignored.
EmitSection_Unaligned(em, section, data) ==
  EmitBytes(EmitVbrInt(EmitByte(em, BEFSectionID(section)),
                       2 * Len(data.bytes)),
            data.bytes)

\* BEFFileEmitter::EmitSection
EmitSection(em, section, data) ==
  LET with_id == EmitByte(em, BEFSectionID(section))
      shifted_section_length == 2 * Len(data.bytes)
      offset == Len(with_id.bytes) + Len(VbrInt(shifted_section_length, 0))
  IN IF data.alignment > 1 /\ offset % data.alignment # 0
       THEN EmitBytes(
              EmitAlignment(
                EmitByte(EmitVbrInt(with_id, shifted_section_length + 1),
                         data.alignment),
                data.alignment),
              data.bytes)
       ELSE EmitBytes(EmitVbrInt(with_id, shifted_section_length),
                      data.bytes)

\* bytes of each string followed by a NUL, in the order given
RECURSIVE EmitStringsNul(_, _)
EmitStringsNul(em, strs) ==
  IF strs = <<>> THEN em
  ELSE EmitStringsNul(EmitByte(EmitBytes(em, Head(strs)), 0), Tail(strs))

\* the offset of entry k of strs in the section EmitStringsNul makes
RECURSIVE StringOffsets(_, _)
StringOffsets(strs, k) ==
  IF k = 1 THEN 0
  ELSE StringOffsets(strs, k - 1) + Len(strs[k - 1]) + 1

\* string_view comparison: lexicographic on the bytes
RECURSIVE StringLess(_, _)
StringLess(a, b) ==
  IF b = <<>> THEN FALSE
  ELSE IF a = <<>> THEN TRUE
  ELSE IF Head(a) # Head(b) THEN Head(a) < Head(b)
  ELSE StringLess(Tail(a), Tail(b))

\* std::sort of the strings of a set
RECURSIVE SortStrings(_)
SortStrings(strs) ==
  IF strs = {} THEN <<>>
  ELSE LET first == CHOOSE s \in strs :
                      \A t \in strs \ {s} : StringLess(s, t)
       IN <<first>> \o SortStrings(strs \ {first})

\* a ^ b on unsigned integers
RECURSIVE Xor(_, _)
Xor(a, b) ==
  IF a = 0 THEN b
  ELSE IF b = 0 THEN a
  ELSE ((a + b) % 2) + 2 * Xor(a \div 2, b \div 2)

\* The bucket a DenseMap keyed by mlir::Operation* looks at first for the
\* operation in heap slot `slot`: the operation lies at address 16 * slot,
\* the hash of a pointer p is (p >> 4) ^ (p >> 9), and the map has 64
\* buckets (it has them from the first insertion until it holds 48 keys).
BucketOf(slot) ==
  LET p == 16 * slot
  IN Xor(p \div 16, p \div 512) % 64

\* Iteration over a DenseMap keyed by mlir::Operation*, the keys given in
\* the order of their insertion: a key goes to the first empty bucket of
\* its probe sequence (the bucket of its hash, then 1, 2, 3, ... buckets
\* further, modulo the number of buckets), and the iteration visits the
\* buckets in order.
DenseMapOrder(ops, addr) ==
  LET RECURSIVE LookupBucketFor(_, _, _)
      LookupBucketFor(buckets, bucket_no, probe_amt) ==
        IF buckets[bucket_no] = 0 THEN bucket_no
        ELSE LookupBucketFor(buckets, (bucket_no + probe_amt) % 64,
                             probe_amt + 1)
      RECURSIVE Insert(_, _)
      Insert(buckets, k) ==
        IF k > Len(ops) THEN buckets
        ELSE Insert([buckets EXCEPT
                       ![LookupBucketFor(buckets, BucketOf(addr[ops[k]]), 1)]
                          = ops[k]],
                    k + 1)
      buckets == Insert([b \in 0..63 |-> 0], 1)
      Full(key) == key # 0
  IN SelectSeq([k \in 1..64 |-> buckets[k - 1]], Full)

\* the table of offsets built while emitting
EmptyEntityIndex ==
  [strings |-> EmptyMap,
   attribute_offsets |-> EmptyMap,
   function_index |-> <<>>,
   location_position_offsets |-> EmptyMap,
   debug_info_offset |-> EmptyMap]

\* the positions section: three VBR integers per operation, in the order
\* given; the outcome carries the offset of each operation's entry
RECURSIVE EmitPositions(_, _, _, _)
EmitPositions(em, offsets, order, location_positions) ==
  IF order = <<>> THEN [em |-> em, offsets |-> offsets]
  ELSE LET position == location_positions[Head(order)]
       IN EmitPositions(
            EmitVbrInt(EmitVbrInt(EmitVbrInt(em, position[1]), position[2]),
                       position[3]),
            MapSet(offsets, Head(order), Len(em.bytes)),
            Tail(order), location_positions)

\* BEFModuleEmitter::EmitLocationInfo.  An emission step takes and gives
\* the state of the module emitter: the image em, the index, and the
\* emitter of the attribute types section.
EmitLocationInfo(m, e, ir, addr) ==
  LET filenames_section ==
        EmitStringsNul(EmptyEmitter, e.location_filenames)
      Keyed(i) == i \in DOMAIN e.location_positions
      positions ==
        EmitPositions(EmptyEmitter, EmptyMap,
                      DenseMapOrder(SelectSeq(walk(ir), Keyed), addr),
                      e.location_positions)
  IN [m EXCEPT
        !.em = EmitSection(
                 EmitSection(@, "kLocationFilenames", filenames_section),
                 "kLocationPositions", positions.em),
        !.index.location_position_offsets = positions.offsets]

\* BEFModuleEmitter::EmitDebugInfo
EmitDebugInfo(m, e, ir, addr) ==
  LET Keyed(i) == i \in DOMAIN e.debug_info
      order == DenseMapOrder(SelectSeq(walk(ir), Keyed), addr)
      entries == [k \in 1..Len(order) |-> e.debug_info[order[k]]]
  IN [m EXCEPT
        !.em = EmitSection(@, "kDebugInfo",
                           EmitStringsNul(EmptyEmitter, entries)),
        !.index.debug_info_offset =
           [i \in DOMAIN e.debug_info |->
              LET k == CHOOSE k \in 1..Len(order) : order[k] = i
              IN StringOffsets(entries, k)]]

\* BEFModuleEmitter::EmitStrings
EmitStrings(m, e) ==
  LET strs_in_order == SortStrings(e.strings)
  IN [m EXCEPT
        !.em = EmitSection(@, "kStrings",
                           EmitStringsNul(EmptyEmitter, strs_in_order)),
        !.index.strings =
           [s \in e.strings |->
              LET k == CHOOSE k \in 1..Len(strs_in_order) :
                         strs_in_order[k] = s
              IN StringOffsets(strs_in_order, k)]]

\* BefAttrEmitter::GetBefAttributeType: a code per kind of attribute
GetBefAttributeType(value) ==
  CASE value.kind = "int" /\ value.ty = Str("i1") -> 1
    [] value.kind = "int" /\ value.ty = Str("i32") -> 2

\* BefAttrEmitter::EmitAttribute: an i1 is a byte, an i32 four bytes on a
\* 4-byte boundary; the outcome carries the offset of the attribute
EmitAttribute(em, value) ==
  CASE value.kind = "int" /\ value.ty = Str("i1") ->
         [em |-> EmitByte(em, value.ival), offset |-> Len(em.bytes)]
    [] value.kind = "int" /\ value.ty = Str("i32") ->
         [em |-> EmitInt4(em, value.ival),
          offset |-> Len(EmitAlignment(em, 4).bytes)]

\* the loop of EmitAttributes over the attributes from k on
RECURSIVE EmitAttributeList(_, _, _, _, _)
EmitAttributeList(section, types, offsets, attributes, k) ==
  IF k > Len(attributes)
    THEN [section |-> section, types |-> types, offsets |-> offsets]
  ELSE LET emitted == EmitAttribute(section, attributes[k])
       IN EmitAttributeList(
            emitted.em,
            EmitVbrInt(EmitVbrInt(types, emitted.offset),
                       GetBefAttributeType(attributes[k])),
            MapSet(offsets, attributes[k], emitted.offset),
            attributes, k + 1)

\* BEFModuleEmitter::EmitAttributes; optional: the attribute types are
\* wanted
EmitAttributes(m, e, optional) ==
  LET list == EmitAttributeList(EmptyEmitter, EmptyEmitter, EmptyMap,
                                e.attributes, 1)
  IN [m EXCEPT
        !.em = EmitSection(@, "kAttributes", list.section),
        !.index.attribute_offsets = list.offsets,
        !.attribute_types =
           IF optional
             THEN EmitBytes(EmitVbrInt(EmptyEmitter, Len(e.attributes)),
                            list.types.bytes)
             ELSE EmptyEmitter]

\* BEFModuleEmitter::EmitKernels and BEFModuleEmitter::EmitTypes: a count,
\* then the offset in the strings section of each name
EmitStringOffsets(m, section, names) ==
  LET RECURSIVE Offsets(_, _)
      Offsets(em, k) ==
        IF k > Len(names) THEN em
        ELSE Offsets(EmitVbrInt(em, m.index.strings[names[k]]), k + 1)
  IN [m EXCEPT
        !.em = EmitSection(@, section,
                           Offsets(EmitVbrInt(EmptyEmitter, Len(names)), 1))]

(***************************************************************************)
(* BEFFunctionEmitter                                                      *)
(***************************************************************************)
\* a sequence of integers: EmitInt4 of each (fixed), or EmitVbrInt of each.
\* The first EmitInt4 pads the emitter to a 4-byte boundary, the later ones
\* find it on one.
EmitInts(em, values, fixed) ==
  LET RECURSIVE Vbrs(_)
      Vbrs(k) == IF k > Len(values) THEN <<>>
                 ELSE VbrInt(values[k], 0) \o Vbrs(k + 1)
      Byte(k) == LET v == values[(k - 1) \div 4 + 1]
                     n == (k - 1) % 4
                 IN CASE n = 0 -> v % 256
                      [] n = 1 -> (v \div 256) % 256
                      [] n = 2 -> (v \div 65536) % 256
                      [] n = 3 -> (v \div 16777216) % 256
  IN IF values = <<>> THEN em
     ELSE IF fixed
       THEN EmitBytes(EmitAlignment(em, 4),
                      [k \in 1..(4 * Len(values)) |-> Byte(k)])
     ELSE EmitBytes(em, Vbrs(1))

\* BefEmitter::EmitEmitter: the bytes of another emitter, on the alignment
\* that emitter requires
EmitEmitter(em, emitter) ==
  EmitBytes(EmitAlignment(em, emitter.alignment), emitter.bytes)

\* Mutant of EmitAlignedEmitter: the bytes are appended where the emitter
\* stands.
EmitAlignedEmitter_Unaligned(em, emitter) == EmitBytes(em, emitter.bytes)

\* EmitAlignment(4); EmitEmitter(emitter): the kernel entries are fixed32
\* integers with 4-byte alignment
EmitAlignedEmitter(em, emitter) ==
  EmitEmitter(EmitAlignment(em, 4), emitter)

\* mlir::Value::getUsers from operation i down: the operation of every use
\* of the value, once per use; the use list of a value has the latest
\* use first
RECURSIVE Users(_, _, _)
Users(ir, v, i) ==
  IF i = 0 THEN <<>>
  ELSE LET uses == {k \in DOMAIN ir[i].operands : ir[i].operands[k] = v}
       IN [k \in 1..Cardinality(uses) |-> i] \o Users(ir, v, i - 1)

\* Mutant of the numbering of the registers: the results of the
\* operations come before the block arguments.
Registers_ResultsFirst(ir, p, r) ==
  LET ops == BlockOps(ir, p, {r})
      RECURSIVE Results(_)
      Results(k) ==
        IF k > Len(ops) THEN <<>>
        ELSE [j \in 1..Len(ir[ops[k]].results) |-> Value(ops[k], j, 0, 0)]
               \o Results(k + 1)
  IN Results(1) \o [j \in 1..Len(ir[p].args[r]) |-> Value(0, j, p, r)]

\* the registers of the block of region r of operation p in the order
\* EmitRegisterTable numbers them from 0: the block arguments, then the
\* results of each operation
Registers(ir, p, r) ==
  LET ops == BlockOps(ir, p, {r})
      RECURSIVE Results(_)
      Results(k) ==
        IF k > Len(ops) THEN <<>>
        ELSE [j \in 1..Len(ir[ops[k]].results) |-> Value(ops[k], j, 0, 0)]
               \o Results(k + 1)
  IN [j \in 1..Len(ir[p].args[r]) |-> Value(0, j, p, r)] \o Results(1)

\* Mutant of EmitKernelResultUsers: only the first user is written.
EmitKernelResultUsers_FirstOnly(ir, users, kernel_index_, k) ==
  LET NotReturn(user) == ~IsReturn(ir[user])
      all == SelectSeq(users, NotReturn)
      kept == SubSeq(all, 1, IF Len(all) > 1 THEN 1 ELSE Len(all))
  IN [kernel_list |-> EmitInt4(k.kernel_list, Len(kept)),
      kernel_body |->
        EmitInts(k.kernel_body,
                 [j \in 1..Len(kept) |-> kernel_index_[kept[j]]], TRUE)]

\* BEFFunctionEmitter::EmitKernelResultUsers on the two emitters of a
\* kernel, k.kernel_list and k.kernel_body
EmitKernelResultUsers(ir, users, kernel_index_, k) ==
  LET NotReturn(user) == ~IsReturn(ir[user])
      kept == SelectSeq(users, NotReturn)
  IN [kernel_list |-> EmitInt4(k.kernel_list, Len(kept)),
      kernel_body |->
        EmitInts(k.kernel_body,
                 [j \in 1..Len(kept) |-> kernel_index_[kept[j]]], TRUE)]

\* the users of each of the values from j on, in turn
RECURSIVE EmitUsersOfValues(_, _, _, _, _)
EmitUsersOfValues(ir, values, j, kernel_index_, k) ==
  IF j > Len(values) THEN k
  ELSE EmitUsersOfValues(
         ir, values, j + 1, kernel_index_,
         EmitKernelResultUsers(ir, Users(ir, values[j], Len(ir)),
                               kernel_index_, k))

\* Mutant of EmitArgumentsPseudoKernel: every operation of the block is a
\* user of the first result.
EmitArgumentsPseudoKernel_AllReady(ir, p, r, kernel_index_, kernel_list) ==
  LET ops == BlockOps(ir, p, {r})
      registers == Registers(ir, p, r)
      arguments == SubSeq(registers, 1, Len(ir[p].args[r]))
      header ==
        EmitInts(EmitBytes(EmitAlignment(kernel_list, 4),
                           <<171, 171, 171, 171, 205, 205, 205, 205>>),
                 <<0, 0, 0, Len(arguments) + 1, 0>>, TRUE)
      kernel_body ==
        EmitInts(EmptyEmitter,
                 <<Len(registers)>> \o [j \in 1..Len(arguments) |-> j - 1],
                 TRUE)
      NoOperands(i) == TRUE
      ready_kernels == SelectSeq(ops, NoOperands)
      k == EmitUsersOfValues(
             ir, arguments, 1, kernel_index_,
             EmitKernelResultUsers(
               ir, ready_kernels, kernel_index_,
               [kernel_list |-> header, kernel_body |-> kernel_body]))
  IN EmitEmitter(k.kernel_list, k.kernel_body)

\* BEFFunctionEmitter::EmitArgumentsPseudoKernel; kDummyPseudoKernelCode
\* is four bytes 0xAB and kDummyPseudoKernelLocation four bytes 0xCD
EmitArgumentsPseudoKernel(ir, p, r, kernel_index_, kernel_list) ==
  LET ops == BlockOps(ir, p, {r})
      registers == Registers(ir, p, r)
      arguments == SubSeq(registers, 1, Len(ir[p].args[r]))
      header ==
        EmitInts(EmitBytes(EmitAlignment(kernel_list, 4),
                           <<171, 171, 171, 171, 205, 205, 205, 205>>),
                 <<0, 0, 0, Len(arguments) + 1, 0>>, TRUE)
      kernel_body ==
        EmitInts(EmptyEmitter,
                 <<Len(registers)>> \o [j \in 1..Len(arguments) |-> j - 1],
                 TRUE)
      NoOperands(i) == ir[i].operands = <<>>
      ready_kernels == SelectSeq(ops, NoOperands)
      k == EmitUsersOfValues(
             ir, arguments, 1, kernel_index_,
             EmitKernelResultUsers(
               ir, ready_kernels, kernel_index_,
               [kernel_list |-> header, kernel_body |-> kernel_body]))
  IN EmitEmitter(k.kernel_list, k.kernel_body)

\* BEFFunctionEmitter::EmitKernel for operation i; f holds the emitters
\* kernel_list and attribute_names.  In an array of function attributes
\* every element is read as a FlatSymbolRefAttr: for an element that is
\* none the cast is null and getValue() on it stops the process
\* (crashed).
EmitKernel(ir, i, e, index, optional, kernel_index_, f) ==
  LET op == ir[i]
      registers == Registers(ir, op.parent, op.region)
      GetRegisterNumber(v) ==
        (CHOOSE j \in DOMAIN registers : registers[j] = v) - 1
      \* the loop over the attributes of the operation
      RECURSIVE Attrs(_, _)
      Attrs(j, a) ==
        IF j > Len(op.attrs) THEN a
        ELSE LET attr == op.attrs[j]
             IN Attrs(j + 1,
                  IF attr.name = Str("_tfrt_cost") THEN a
                  ELSE IF IsSpecialAttribute(attr.name)
                    THEN [a EXCEPT !.special_attribute = 1]
                  ELSE IF IsFunctionArray(attr.value)
                    THEN [a EXCEPT
                            !.functions =
                               @ \o [n \in 1..Len(attr.value.elems) |->
                                       GetFunctionNamed(
                                         e, attr.value.elems[n].sval)],
                            !.crashed =
                               @ \/ \E n \in DOMAIN attr.value.elems :
                                       attr.value.elems[n].kind # "sym"]
                  ELSE IF attr.value.kind = "sym"
                    THEN [a EXCEPT !.functions =
                            Append(@, GetFunctionNamed(e, attr.value.sval))]
                  ELSE [a EXCEPT
                          !.names = IF optional
                                      THEN Append(@, index.strings[attr.name])
                                      ELSE @,
                          !.attributes =
                             Append(@, index.attribute_offsets[attr.value])])
      a == Attrs(1, [special_attribute |-> 0, functions |-> <<>>,
                     attributes |-> <<>>, names |-> <<>>,
                     crashed |-> FALSE])
      input_functions ==
        a.functions \o [n \in 1..Len(op.nblocks) |->
                          e.region_function_ids[<<i, n>>]]
      has_debug_info == i \in DOMAIN index.debug_info_offset
      header ==
        EmitInts(f.kernel_list,
                 <<e.kernel_ids[op.name], index.location_position_offsets[i],
                   Len(op.operands), Len(a.attributes), Len(input_functions),
                   Len(op.results),
                   a.special_attribute + (IF has_debug_info THEN 2 ELSE 0)>>,
                 TRUE)
      kernel_body ==
        EmitInts(
          EmitEmitter(
            EmitEmitter(
              EmitInts(EmptyEmitter,
                       [j \in 1..Len(op.operands) |->
                          GetRegisterNumber(op.operands[j])], TRUE),
              EmitInts(EmptyEmitter, a.attributes, TRUE)),
            EmitInts(EmptyEmitter, input_functions, TRUE)),
          [j \in 1..Len(op.results) |->
             GetRegisterNumber(Value(i, j, 0, 0))], TRUE)
      Emitted(k) ==
        [kernel_list |->
           EmitAlignedEmitter(
             k.kernel_list,
             IF has_debug_info
               THEN EmitInt4(k.kernel_body, index.debug_info_offset[i])
               ELSE k.kernel_body),
         attribute_names |-> EmitInts(f.attribute_names, a.names, FALSE),
         crashed |-> a.crashed]
  IN Emitted(EmitUsersOfValues(
               ir, [j \in 1..Len(op.results) |-> Value(i, j, 0, 0)], 1,
               kernel_index_,
               [kernel_list |-> header, kernel_body |-> kernel_body]))

\* Mutant of NumOperandsBeforeRunning: the non-strict marker is ignored.
NumOperandsBeforeRunning_Strict(op) == Len(op.operands)

\* num_operands_before_running of EmitFunction: the number of operands,
\* or 1 for a non-strict kernel that has operands
NumOperandsBeforeRunning(op) ==
  LET is_non_strict ==
        \E n \in DOMAIN op.attrs : IsSpecialAttribute(op.attrs[n].name)
  IN IF is_non_strict /\ Len(op.operands) # 0 THEN 1 ELSE Len(op.operands)

\* BEFFunctionEmitter::EmitFunction for region r of operation p, on the
\* emitters s.functions_section, s.attribute_names and s.register_types.
\* compiler::StreamAnalysis puts the pseudo kernel and the kernels without
\* operands in stream 0 and the others in stream 1.
EmitFunction(ir, p, r, e, index, optional, s) ==
  LET ops == BlockOps(ir, p, {r})
      registers == Registers(ir, p, r)
      GetRegisterNumber(v) ==
        (CHOOSE j \in DOMAIN registers : registers[j] = v) - 1
      reg_table ==
        EmitInts(EmptyEmitter,
                 [j \in 1..Len(registers) |->
                    Len(Users(ir, registers[j], Len(ir)))], FALSE)
      reg_type_table ==
        EmitInts(EmptyEmitter,
                 [j \in 1..Len(registers) |->
                    e.type_ids[TypeOf(ir, registers[j])]], FALSE)
      NotReturn(i) == ~IsReturn(ir[i])
      kernels == SelectSeq(ops, NotReturn)
      kernel_index_ ==
        [i \in {kernels[j] : j \in DOMAIN kernels} |->
           CHOOSE j \in DOMAIN kernels : kernels[j] = i]
      num_kernels == Len(kernels) + 1
      header ==
        EmitInts(
          EmitEmitter(
            EmitInts(s.functions_section,
                     <<index.location_position_offsets[p], Len(registers)>>,
                     FALSE),
            reg_table),
          <<num_kernels, 0, 0, 0>>, FALSE)
      \* the loop over the operations of the block that are not returns; next is
      \* the index of the operation to emit
      RECURSIVE Kernels(_)
      Kernels(f) ==
        IF f.next > Len(kernels) \/ f.crashed THEN f
        ELSE LET j == f.next
                 op == ir[kernels[j]]
                 Listed(emitted) ==
                   [next |-> j + 1,
                    em |-> EmitInts(f.em,
                                    <<Len(f.kernel_list.bytes),
                                      NumOperandsBeforeRunning(op),
                                      IF op.operands = <<>> THEN 0 ELSE 1>>,
                                    FALSE),
                    kernel_list |-> emitted.kernel_list,
                    attribute_names |-> emitted.attribute_names,
                    crashed |-> emitted.crashed]
             IN Kernels(
                  Listed(EmitKernel(ir, kernels[j], e, index, optional,
                                    kernel_index_,
                                    [kernel_list |-> f.kernel_list,
                                     attribute_names |-> f.attribute_names])))
      returns == SelectSeq(ops, LAMBDA i : IsReturn(ir[i]))
      results ==
        IF returns = <<>> THEN <<>>
        ELSE LET return_op == ir[returns[Len(returns)]]
             IN [j \in 1..Len(return_op.operands) |->
                   GetRegisterNumber(return_op.operands[j])]
      Emitted(f) ==
        [functions_section |->
           EmitAlignedEmitter(EmitInts(f.em, results, FALSE), f.kernel_list),
         attribute_names |-> f.attribute_names,
         register_types |->
           IF optional
             THEN EmitEmitter(EmitVbrInt(s.register_types, Len(registers)),
                              reg_type_table)
             ELSE s.register_types,
         crashed |-> f.crashed]
  IN Emitted(Kernels(
               [next |-> 1,
                em |-> header,
                kernel_list |->
                  EmitArgumentsPseudoKernel(ir, p, r, kernel_index_,
                                            EmptyEmitter),
                attribute_names |->
                  IF optional THEN EmitVbrInt(s.attribute_names, num_kernels)
                  ELSE s.attribute_names,
                crashed |-> FALSE]))

\* BEFModuleEmitter::EmitFunctions; FunctionKind is a byte: 0 for
\* kBEFFunction, 1 for kNativeFunction, 2 for kSyncBEFFunction
EmitFunctions(m, e, ir, optional) ==
  LET count == IF optional THEN <<Len(e.functions)>> ELSE <<>>
      \* the loop over the functions of the entity table
      RECURSIVE Functions(_)
      Functions(s) ==
        IF Len(s.function_index) >= Len(e.functions) \/ s.crashed THEN s
        ELSE LET function_entry == e.functions[Len(s.function_index) + 1]
                 entry ==
                   [name_offset |-> m.index.strings[function_entry.name],
                    function_offset |-> Len(s.functions_section.bytes),
                    inputs |-> function_entry.inputs,
                    results |-> function_entry.results,
                    kind |-> function_entry.kind]
                 Entered(emitted) ==
                   [functions_section |-> emitted.functions_section,
                    attribute_names |-> emitted.attribute_names,
                    register_types |-> emitted.register_types,
                    function_index |-> Append(s.function_index, entry),
                    crashed |-> emitted.crashed]
             IN Functions(
                  Entered(IF function_entry.kind = "kNativeFunction" THEN s
                          ELSE EmitFunction(ir, function_entry.region[1],
                                            function_entry.region[2], e,
                                            m.index, optional, s)))
      TypeIndices(types) == [j \in 1..Len(types) |-> e.type_ids[types[j]]]
      \* the loop over the entries of the function index
      RECURSIVE FunctionIndex(_, _, _)
      FunctionIndex(function_index, j, em) ==
        IF j > Len(function_index) THEN em
        ELSE LET entry == function_index[j]
                 kind == CASE entry.kind = "kBEFFunction" -> 0
                           [] entry.kind = "kNativeFunction" -> 1
                           [] entry.kind = "kSyncBEFFunction" -> 2
             IN FunctionIndex(function_index, j + 1,
                  EmitInts(EmitByte(em, kind),
                           <<entry.function_offset, entry.name_offset,
                             Len(entry.inputs)>>
                             \o TypeIndices(entry.inputs)
                             \o <<Len(entry.results)>>
                             \o TypeIndices(entry.results),
                           FALSE))
      Sections(s) ==
        [m EXCEPT
           !.em = EmitSection(
                    EmitSection(
                      @, "kFunctionIndex",
                      FunctionIndex(
                        s.function_index, 1,
                        EmitVbrInt(EmptyEmitter, Len(s.function_index)))),
                    "kFunctions", s.functions_section),
           !.index.function_index = s.function_index,
           !.attribute_names = s.attribute_names,
           !.register_types = s.register_types,
           !.crashed = s.crashed]
  IN Sections(Functions(
                [functions_section |-> EmptyEmitter,
                 attribute_names |-> EmitInts(EmptyEmitter, count, FALSE),
                 register_types |-> EmitInts(EmptyEmitter, count, FALSE),
                 function_index |-> <<>>,
                 crashed |-> FALSE]))

(***************************************************************************)
(* Reading a BEF file, as the layout the emitters write                    *)
(***************************************************************************)
\* n integers from the offset on: 32-bit little-endian two's complement
\* (fixed), or variable-byte; next is the offset after them
RECURSIVE ReadInts(_, _, _, _)
ReadInts(bytes, offset, n, fixed) ==
  IF n <= 0 \/ offset >= Len(bytes) THEN [values |-> <<>>, next |-> offset]
  ELSE LET At(q) == IF q + 1 \in DOMAIN bytes THEN bytes[q + 1] ELSE 0
           RECURSIVE Vbr(_, _)
           Vbr(q, acc) ==
             IF At(q) >= 128 THEN Vbr(q + 1, acc * 128 + (At(q) % 128))
             ELSE [value |-> acc * 128 + At(q), next |-> q + 1]
           high == At(offset + 3)
           first ==
             IF fixed
               THEN [value |-> At(offset) + 256 * At(offset + 1)
                                 + 65536 * At(offset + 2)
                                 + 16777216 * (IF high >= 128 THEN high - 256
                                               ELSE high),
                     next |-> offset + 4]
               ELSE Vbr(offset, 0)
           rest == ReadInts(bytes, first.next, n - 1, fixed)
       IN [values |-> <<first.value>> \o rest.values, next |-> rest.next]

\* the sections of a file from the offset on: id, flag, alignment, and
\* the offset and length of the payload
RECURSIVE ReadSections(_, _)
ReadSections(bytes, offset) ==
  IF offset >= Len(bytes) THEN <<>>
  ELSE LET header == ReadInts(bytes, offset + 1, 1, FALSE)
           flag == header.values[1] % 2
           len == header.values[1] \div 2
           alignment == IF flag = 1 THEN bytes[header.next + 1] ELSE 1
           start ==
             IF flag = 1
               THEN alignment * ((header.next + alignment) \div alignment)
               ELSE header.next
       IN <<[id |-> bytes[offset + 1], flag |-> flag,
             alignment |-> alignment, start |-> start, len |-> len]>>
            \o ReadSections(bytes, start + len)

\* the kernel record at the offset of the functions section: seven
\* integers, the number of users of each result, then the body
ReadKernel(bytes, start) ==
  LET header == ReadInts(bytes, start, 7, TRUE).values
      num_users == ReadInts(bytes, start + 28, header[6], TRUE)
      arguments == ReadInts(bytes, num_users.next, header[3], TRUE)
      attributes == ReadInts(bytes, arguments.next, header[4], TRUE)
      functions == ReadInts(bytes, attributes.next, header[5], TRUE)
      result_regs == ReadInts(bytes, functions.next, header[6], TRUE)
      RECURSIVE UsersFrom(_, _)
      UsersFrom(j, at) ==
        IF j > header[6] THEN [users |-> <<>>, next |-> at]
        ELSE LET users == ReadInts(bytes, at, num_users.values[j], TRUE)
                 rest == UsersFrom(j + 1, users.next)
             IN [users |-> <<users.values>> \o rest.users,
                 next |-> rest.next]
      users == UsersFrom(1, result_regs.next)
      has_debug_info == (header[7] \div 2) % 2 = 1
  IN [code |-> header[1],
      location |-> header[2],
      special_flags |-> header[7],
      arguments |-> arguments.values,
      attributes |-> attributes.values,
      functions |-> functions.values,
      results |-> result_regs.values,
      users |-> users.users,
      debug_info |->
        ReadInts(bytes, users.next, IF has_debug_info THEN 1 ELSE 0,
                 TRUE).values,
      end |-> users.next + (IF has_debug_info THEN 4 ELSE 0)]

\* the registers EmitFunction lists after the table of kernels: the
\* operands of the return of the block, and none for a block without one
ReturnOperands(ir, p, r) ==
  LET block == BlockOps(ir, p, {r})
      last_op == ir[block[Len(block)]]
  IN IF IsReturn(last_op) THEN last_op.operands ELSE <<>>

\* the header of the function at the offset of the functions section;
\* kernel_list is the offset of the kernel records, on a 4-byte boundary
ReadFunction(bytes, offset, num_results) ==
  LET head == ReadInts(bytes, offset, 2, FALSE)
      use_counts == ReadInts(bytes, head.next, head.values[2], FALSE)
      num_kernels == ReadInts(bytes, use_counts.next, 1, FALSE)
      table == ReadInts(bytes, num_kernels.next, 3 * num_kernels.values[1],
                        FALSE)
      results == ReadInts(bytes, table.next, num_results, FALSE)
  IN [location |-> head.values[1],
      use_counts |-> use_counts.values,
      kernels |->
        [k \in 1..(Len(table.values) \div 3) |->
           [offset |-> table.values[3 * k - 2],
            num_operands_before_running |-> table.values[3 * k - 1],
            stream |-> table.values[3 * k]]],
      results |-> results.values,
      header_end |-> results.next,
      kernel_list |-> 4 * ((results.next + 3) \div 4)]

\* Mutant of EmitModule: the three optional sections are never written.
EmitModule_NoOptionalSections(e, ir, optional, addr) ==
  LET start == [em |-> EmitBytes(EmptyEmitter, <<239, 171, 175>>),
                index |-> EmptyEntityIndex,
                attribute_types |-> EmptyEmitter,
                attribute_names |-> EmptyEmitter,
                register_types |-> EmptyEmitter,
                crashed |-> FALSE]
      attributes ==
        EmitAttributes(
          EmitStrings(
            EmitDebugInfo(EmitLocationInfo(start, e, ir, addr), e, ir, addr), e),
          e, optional)
      kernels == EmitStringOffsets(attributes, "kKernels", e.kernels)
      types == EmitStringOffsets(kernels, "kTypes",
                                 [k \in 1..Len(e.types) |->
                                    PrintType(e.types[k])])
  IN EmitFunctions(types, e, ir, optional)

\* The file ConvertMLIRToBEF emits after a successful Collect: the magic
\* bytes {kBEFMagic1, kBEFMagic2, kBEFVersion0} and the sections.
EmitModule(e, ir, optional, addr) ==
  LET start == [em |-> EmitBytes(EmptyEmitter, <<239, 171, 175>>),
                index |-> EmptyEntityIndex,
                attribute_types |-> EmptyEmitter,
                attribute_names |-> EmptyEmitter,
                register_types |-> EmptyEmitter,
                crashed |-> FALSE]
      attributes ==
        EmitAttributes(
          EmitStrings(
            EmitDebugInfo(EmitLocationInfo(start, e, ir, addr), e, ir, addr), e),
          e, optional)
      kernels == EmitStringOffsets(attributes, "kKernels", e.kernels)
      types == EmitStringOffsets(kernels, "kTypes",
                                 [k \in 1..Len(e.types) |->
                                    PrintType(e.types[k])])
      OptionalSections(functions) ==
        IF optional
          THEN [functions EXCEPT
                  !.em = EmitSection(
                           EmitSection(
                             EmitSection(@, "kAttributeTypes",
                                         functions.attribute_types),
                             "kAttributeNames", functions.attribute_names),
                           "kRegisterTypes", functions.register_types)]
          ELSE functions
  IN OptionalSections(EmitFunctions(types, e, ir, optional))

(***************************************************************************)
(* ConvertMLIRToBEF                                                        *)
(***************************************************************************)
\* The assignments of heap slots to the operations of a module that the
\* walk records in the maps keyed by mlir::Operation*.  The allocator puts
\* operation i anywhere in an arena of its own, which starts at slot
\* 2048 * i, a multiple of both 64 and 32 * 64: the hash of slot
\* 2048 * i + x is the hash of slot x.  The offsets x are the slots of the
\* first two buckets and of the last four, so that two operations may
\* meet in a bucket, probe into the bucket of a third and wrap around the
\* end of the table, whatever the order of their addresses.
AddressMaps(ir) ==
  LET keyed == {i \in 1..Len(ir) : ~IsReturn(ir[i])}
  IN {[i \in keyed |-> 2048 * i + x[i]] :
        x \in [keyed -> {0, 1, 60, 61, 62, 63}]}

CompileInit ==
  /\ b_pc = "idle"
  /\ b_build = "unknown"
  /\ b_ir = 1
  /\ b_optional = FALSE
  /\ b_walk = <<>>
  /\ b_collect = [e |-> EmptyEntityTable, result |-> "Success",
                  fn_attrs |-> <<>>, diags |-> <<>>]
  /\ entity_index_ = EmptyEntityIndex
  /\ result_ = EmptyEmitter
  /\ attribute_types = EmptyEmitter
  /\ b_run = 0
  /\ b_prev = <<>>

\* the start of a conversion of module m
StartConversion(m, optional) ==
  /\ b_ir' = m
  /\ b_optional' = optional
  /\ b_walk' = walk(IRs[m])
  /\ b_collect' = [e |-> EmptyEntityTable, result |-> "Success",
                   fn_attrs |-> <<>>, diags |-> <<>>]
  /\ entity_index_' = EmptyEntityIndex
  /\ result_' = EmptyEmitter
  /\ attribute_types' = EmptyEmitter
  /\ b_run' = b_run + 1
  /\ b_pc' = "collect"
  /\ UNCHANGED b_build

\* ConvertMLIRToBEF is called on a module.
ConvertMLIRToBEF(m, disable_optional_sections) ==
  /\ b_pc = "idle"
  /\ StartConversion(m, ~disable_optional_sections)
  /\ UNCHANGED b_prev

\* The same module is converted a second time; b_prev keeps the image the
\* first conversion returned.
ConvertAgain ==
  /\ b_pc = "done"
  /\ b_run = 1
  /\ b_prev' = result_.bytes
  /\ StartConversion(b_ir, b_optional)

\* One call of the walk callback of Collect.  The call shows the build
\* where an assert fails in it: the process stops there in a build with
\* asserts and goes on in a build with NDEBUG.
CollectEntities ==
  /\ b_pc = "collect"
  /\ b_walk # <<>>
  /\ LET Callback(ndebug) ==
           CollectOp(IRs[b_ir], Head(b_walk), b_collect, b_optional, ndebug)
     IN \E build \in IF b_build = "unknown" THEN {"assert", "ndebug"}
                      ELSE {b_build} :
          /\ b_collect' = Callback(build = "ndebug")
          /\ b_build' = IF Callback(TRUE) # Callback(FALSE) THEN build
                        ELSE b_build
  /\ b_pc' = IF b_collect'.e.aborted THEN "aborted" ELSE b_pc
  /\ b_walk' = Tail(b_walk)
  /\ UNCHANGED <<b_ir, b_optional, entity_index_, result_,
                 attribute_types, b_run, b_prev>>

\* The orders in which the two maps keyed by mlir::Operation* are read
\* when the operations of the module lie at addresses addr.
IterationOrders(e, ir, addr) ==
  LET Positioned(i) == i \in DOMAIN e.location_positions
      Debugged(i) == i \in DOMAIN e.debug_info
  IN <<DenseMapOrder(SelectSeq(walk(ir), Positioned), addr),
       DenseMapOrder(SelectSeq(walk(ir), Debugged), addr)>>

\* The walk is over: Collect returns; on failure the conversion returns an
\* empty buffer, on success it emits the file, unless the process stops
\* in EmitKernel.  The file depends on the
\* addresses of the operations, which the allocator chose when the module
\* was built, through the orders in which the two maps are read and
\* through nothing else: it is emitted for one assignment of addresses
\* per pair of orders.
EmitBEF ==
  /\ b_pc = "collect"
  /\ b_walk = <<>>
  /\ b_collect' = CollectResult(b_collect)
  /\ LET Return(m) ==
           IF m.crashed
             THEN /\ b_pc' = "aborted"
                  /\ UNCHANGED <<entity_index_, result_, attribute_types>>
             ELSE /\ result_' = m.em
                  /\ entity_index_' = m.index
                  /\ attribute_types' = m.attribute_types
                  /\ b_pc' = "done"
         Emit(layouts) ==
           \E orders \in {l[1] : l \in layouts} :
             LET addr == (CHOOSE l \in layouts : l[1] = orders)[2]
             IN Return(EmitModule(b_collect.e, IRs[b_ir], b_optional, addr))
     IN IF b_collect'.result = "Failure"
          THEN /\ result_' = EmptyEmitter
               /\ b_pc' = "done"
               /\ UNCHANGED <<entity_index_, attribute_types>>
          ELSE Emit({<<IterationOrders(b_collect.e, IRs[b_ir], addr), addr>> :
                       addr \in AddressMaps(IRs[b_ir])})
  /\ UNCHANGED <<b_build, b_ir, b_optional, b_walk, b_run, b_prev>>

CompileNext ==
  \/ \E m \in DOMAIN IRs, disable_optional_sections \in BOOLEAN :
       ConvertMLIRToBEF(m, disable_optional_sections)
  \/ ConvertAgain
  \/ CollectEntities
  \/ EmitBEF

(***************************************************************************)
(* One call of BEFFileEmitter::EmitSection, on a file of any length and    *)
(* a payload of any length and alignment                                   *)
(***************************************************************************)
SectionInit ==
  sec = [pc |-> "idle", section |-> "kStrings", file |-> EmptyEmitter,
         data |-> EmptyEmitter, out |-> EmptyEmitter]

\* EmitSection(section_id, emitter): the file holds prefix bytes, the
\* emitter of the section holds len bytes and requires alignment
EmitOneSection ==
  /\ sec.pc = "idle"
  /\ \E section \in {"kStrings", "kAttributes"}, prefix \in 0..MaxPrefix,
        len \in 0..MaxData, alignment \in {1, 2, 4, 8} :
       LET file == [bytes |-> [k \in 1..prefix |-> 239], alignment |-> 1]
           data == [bytes |-> [k \in 1..len |-> 1 + (k % 255)],
                    alignment |-> alignment]
       IN sec' = [pc |-> "emitted", section |-> section, file |-> file,
                  data |-> data, out |-> EmitSection(file, section, data)]

(***************************************************************************)
(* corert.tensorhandle_to_shape and corert_sync.executeop                  *)
(*                                                                         *)
(* The metadata of a tensor handle is an async value: st is its state,     *)
(* shape the shape it holds when concrete, err the error it holds when an  *)
(* error.  The value a result holds or was forwarded to is a record: kind  *)
(* is none, shape or error.                                                *)
(***************************************************************************)
KernelsInit ==
  /\ shp = [pc |-> "idle",
            meta |-> [st |-> "unavailable", shape |-> <<>>, err |-> 0],
            at_call |-> "none", indirect |-> FALSE,
            result |-> [st |-> "none",
                        to |-> [kind |-> "none", shape |-> <<>>, err |-> 0],
                        n |-> 0]]
  /\ syn = [pc |-> "idle", core_rt |-> FALSE, found |-> FALSE,
            fails |-> FALSE, dispatched |-> 0, returned |-> "none",
            results |-> <<>>]

\* TensorHandle::IsMetadataAvailable: the metadata async value is concrete
IsMetadataAvailable(meta) == meta.st = "concrete"

\* Mutant of the callback of TensorHandleToShape: the result is forwarded
\* to a shape whatever the metadata holds.
ForwardShape_NoError(value, meta) ==
  ForwardTo(value, [kind |-> "shape", shape |-> meta.shape, err |-> 0])

\* The callback TensorHandleToShape registers on the metadata: the
\* indirect result is forwarded to the metadata when it is an error, and
\* else to an available value holding its shape.
ForwardShape(value, meta) ==
  IF meta.st = "error"
    THEN ForwardTo(value, [kind |-> "error", shape |-> <<>>,
                           err |-> meta.err])
    ELSE ForwardTo(value, [kind |-> "shape", shape |-> meta.shape,
                           err |-> 0])

\* TensorHandleToShape: the kernel.  AndThen runs the callback at once
\* when the metadata is already an error.
TensorHandleToShape ==
  /\ shp.pc = "idle"
  /\ LET value == [st |-> "unresolved",
                   to |-> [kind |-> "none", shape |-> <<>>, err |-> 0],
                   n |-> 0]
     IN shp' =
          IF IsMetadataAvailable(shp.meta)
            THEN [shp EXCEPT
                    !.pc = "done", !.at_call = shp.meta.st,
                    !.result = [st |-> "concrete",
                                to |-> [kind |-> "shape",
                                        shape |-> shp.meta.shape,
                                        err |-> 0],
                                n |-> 0]]
          ELSE IF shp.meta.st = "unavailable"
            THEN [shp EXCEPT !.pc = "waiting", !.at_call = shp.meta.st,
                             !.indirect = TRUE, !.result = value]
          ELSE [shp EXCEPT !.pc = "done", !.at_call = shp.meta.st,
                           !.indirect = TRUE,
                           !.result = ForwardShape(value, shp.meta)]
  /\ UNCHANGED syn

\* The producer of the tensor handle resolves its metadata, to a shape of
\* rank up to MaxElems or to an error.
MetadataResolve ==
  /\ shp.pc \in {"idle", "waiting"}
  /\ shp.meta.st = "unavailable"
  /\ \/ \E shape \in UNION {[1..k -> 0..MaxDim] : k \in 0..MaxElems} :
          shp' = [shp EXCEPT !.meta = [st |-> "concrete", shape |-> shape,
                                       err |-> 0]]
     \/ \E err \in 1..2 :
          shp' = [shp EXCEPT !.meta = [st |-> "error", shape |-> <<>>,
                                       err |-> err]]
  /\ UNCHANGED syn

\* The callback registered on the metadata runs, the metadata resolved.
MetadataAndThen ==
  /\ shp.pc = "waiting"
  /\ shp.meta.st # "unavailable"
  /\ shp' = [shp EXCEPT !.pc = "done",
                         !.result = ForwardShape(shp.result, shp.meta)]
  /\ UNCHANGED syn

\* ExecuteOpImplSync runs the op on the arguments and leaves its results
\* in the frame: tensor handles, or errors when the op fails.
ExecuteOpImplSync(fails, nres) ==
  [i \in 1..nres |-> IF fails THEN "error" ELSE "concrete"]

\* ExecuteOpSync: the kernel, from the call to the return.  core_rt: a
\* CoreRuntime is registered in the host context; found: MakeOp returns an
\* op; fails: the op fails when it is run.
ExecuteOpSync(core_rt, found, fails, nres) ==
  /\ syn.pc = "idle"
  /\ syn' =
       IF ~core_rt
         THEN [syn EXCEPT !.pc = "returned", !.core_rt = core_rt,
                          !.found = found, !.fails = fails,
                          !.returned = "no CoreRuntime available"]
       ELSE IF ~found
         THEN [syn EXCEPT !.pc = "returned", !.core_rt = core_rt,
                          !.found = found, !.fails = fails,
                          !.returned = "MakeOp error"]
       ELSE [syn EXCEPT !.pc = "returned", !.core_rt = core_rt,
                        !.found = found, !.fails = fails,
                        !.dispatched = 1,
                        !.results = ExecuteOpImplSync(fails, nres),
                        !.returned = "success"]
  /\ UNCHANGED shp

KernelsNext ==
  \/ TensorHandleToShape
  \/ MetadataResolve
  \/ MetadataAndThen
  \/ \E core_rt, found, fails \in BOOLEAN, nres \in 0..MaxArgs :
       ExecuteOpSync(core_rt, found, fails, nres)

(***************************************************************************)
(* Specifications                                                          *)
(***************************************************************************)
Init ==
  /\ WhileInit /\ CondInit /\ SeqInit /\ AVInit /\ CompileInit /\ SectionInit
  /\ KernelsInit

SpecWhile ==
  Init /\ [][WhileNext /\
             UNCHANGED <<condVars, seqVars, avVars, compileVars, sec,
                         shp, syn>>]_vars

SpecCond ==
  Init /\ [][CondNext /\
             UNCHANGED <<whileVars, seqVars, avVars, compileVars, sec,
                         shp, syn>>]_vars

SpecSeq ==
  Init /\ [][SeqNext /\
             UNCHANGED <<whileVars, condVars, avVars, compileVars, sec,
                         shp, syn>>]_vars

\* One run of corert.while or one run of corert.cond: the two kernels
\* share no state, a run of one starts while the other has not started.
SpecCondWhile ==
  Init /\ [][\/ /\ c_pc = "idle"
                /\ WhileNext
                /\ UNCHANGED <<condVars, seqVars, avVars, compileVars, sec,
                               shp, syn>>
             \/ /\ w_pc = "idle"
                /\ CondNext
                /\ UNCHANGED <<whileVars, seqVars, avVars, compileVars,
                               sec, shp, syn>>]_vars

\* corert.executeop.seq with its scheduling: the RunWhenReady callback and
\* the AndThen callback run once the values they wait for are available.
\* Nothing is assumed of the dispatched op: it completes its chain and its
\* results, or it does not.
SpecSeqFair ==
  /\ Init
  /\ [][SeqNext /\
         UNCHANGED <<whileVars, condVars, avVars, compileVars, sec,
                     shp, syn>>]_vars
  /\ WF_vars((\E known \in BOOLEAN : SeqArgsReady(known)) /\
             UNCHANGED <<whileVars, condVars, avVars, compileVars, sec,
                         shp, syn>>)
  /\ WF_vars(SeqOpChainReady /\
             UNCHANGED <<whileVars, condVars, avVars, compileVars, sec,
                         shp, syn>>)

SpecAV ==
  Init /\ [][AVNext /\
             UNCHANGED <<whileVars, condVars, seqVars, compileVars, sec,
                         shp, syn>>]_vars

SpecCompile ==
  Init /\ [][CompileNext /\
             UNCHANGED <<whileVars, condVars, seqVars, avVars, sec,
                         shp, syn>>]_vars

SpecSection ==
  Init /\ [][EmitOneSection /\
             UNCHANGED <<whileVars, condVars, seqVars, avVars,
                         compileVars, shp, syn>>]_vars

SpecKernels ==
  Init /\ [][KernelsNext /\
             UNCHANGED <<whileVars, condVars, seqVars, avVars,
                         compileVars, sec>>]_vars


(***************************************************************************)
(* Properties of corert.while                                              *)
(***************************************************************************)
WhileAllForwardedTo(target) ==
  \A i \in DOMAIN w_results :
    w_results[i].st = "forwarded" /\ w_results[i].to = target

\* C1: when corert.while finishes without error and without cancellation,
\* result i is forwarded to the i-th value of the last loop state, the last
\* predicate computed was false and every earlier one true, cond_fn ran once
\* per iteration and body_fn once per iteration but the last.
C1_WhileNormalExit ==
  (w_pc = "done" /\ w_exit = "false") =>
    /\ \A i \in DOMAIN w_results :
         /\ w_results[i].st = "forwarded"
         /\ w_results[i].to = <<"val", w_body_calls, i>>
         /\ w_results[i].to = w_args[i]
    /\ Len(w_results) = Len(w_args)
    /\ Len(w_preds) = w_cond_calls
    /\ w_preds[Len(w_preds)] = FALSE
    /\ \A k \in 1..(Len(w_preds) - 1) : w_preds[k] = TRUE
    /\ w_cond_calls = w_iters
    /\ w_body_calls = w_iters - 1

C1_Witness ==
  /\ w_pc = "done" /\ w_exit = "false"
  /\ w_body_calls >= 1
  /\ Len(w_results) = 2

\* C2 as claimed: a cancel value set while the loop is in progress always
\* ends with every result forwarded to the cancel value.
C2_CancelMidLoopAlwaysWins ==
  (w_pc = "done" /\ w_cancel_mid) => WhileAllForwardedTo(<<"cancel", 0, 0>>)

\* C2, amended: when the cancel value is set while the loop is in progress,
\* the results are forwarded to the cancel value as soon as another iteration
\* starts, without a further call of cond_fn; when the loop ends without
\* another iteration (its pending condition is false or fails) no result is
\* forwarded to the cancel value.
C2_CancelAtNextIteration ==
  w_cancel_mid =>
    /\ (w_iters > w_cancel_iters) =>
         /\ w_pc = "done"
         /\ WhileAllForwardedTo(<<"cancel", 0, 0>>)
         /\ w_iters = w_cancel_iters + 1
         /\ w_cond_calls = w_cancel_iters
    /\ (w_pc = "done" /\ w_iters = w_cancel_iters) =>
         \A i \in DOMAIN w_results : w_results[i].to # <<"cancel", 0, 0>>

C2_Witness ==
  /\ w_cancel_mid
  /\ w_iters > w_cancel_iters
  /\ w_body_calls >= 1
  /\ w_pc = "done"

\* C3: an iteration that starts with the cancel value set forwards every
\* result to the cancel value and calls neither cond_fn nor body_fn; after
\* that nothing is called and no result changes.
C3_CancelCheckedFirst ==
  [][/\ (w_iters' = w_iters + 1 /\ w_cancel) =>
          /\ w_pc' = "done"
          /\ \A i \in DOMAIN w_results' :
                /\ w_results'[i].st = "forwarded"
                /\ w_results'[i].to = <<"cancel", 0, 0>>
          /\ w_cond_calls' = w_cond_calls
          /\ w_body_calls' = w_body_calls
     /\ (w_exit = "cancel") =>
          /\ w_cond_calls' = w_cond_calls
          /\ w_body_calls' = w_body_calls
          /\ w_iters' = w_iters
          /\ w_results' = w_results]_vars

C3_Witness ==
  /\ w_exit = "cancel"
  /\ w_cond_calls >= 1
  /\ WhileAllForwardedTo(<<"cancel", 0, 0>>)


(***************************************************************************)
(* Properties of corert.cond                                               *)
(***************************************************************************)
\* C4: true_fn and false_fn are called at most once in all; once the
\* predicate has been computed exactly one of them has been called, true_fn
\* iff the predicate is true, with the arguments after the predicate, and
\* result i is forwarded to the i-th value the function returned; without a
\* predicate neither is called.
C4_CondExactlyOneBranch ==
  /\ c_true_calls + c_false_calls <= 1
  /\ (c_pred = "none") => (c_true_calls + c_false_calls = 0)
  /\ (c_pred # "none") =>
       /\ c_pc = "done"
       /\ c_true_calls + c_false_calls = 1
       /\ (c_true_calls = 1) <=> (c_pred = "true")
       /\ (c_false_calls = 1) <=> (c_pred = "false")
       /\ Len(c_fn_args) = Len(c_args) - 1
       /\ \A i \in DOMAIN c_fn_args : c_fn_args[i] = <<"arg", 0, i>>
       /\ \A i \in DOMAIN c_results :
            /\ c_results[i].st = "forwarded"
            /\ c_results[i].to =
                 <<IF c_pred = "true" THEN "true_fn" ELSE "false_fn", 0, i>>
            /\ c_results[i].n = 1

C4_Witness ==
  /\ c_pc = "done"
  /\ c_pred = "false"
  /\ c_false_calls = 1
  /\ Len(c_fn_args) = 2
  /\ Len(c_results) = 2


(***************************************************************************)
(* Properties of corert.executeop.seq                                      *)
(***************************************************************************)
\* the state of the async value held by the out_op_chain result
OutChainState ==
  CASE s_out_ref = "none" -> "unavailable"
    [] s_out_ref = "op_chain" -> s_op_chain
    [] s_out_ref = "own" -> s_out_own
    [] s_out_ref = "error" -> "error"

\* C5: once the op is dispatched, out_chain is available only if the op
\* chain is; on the fast path out_chain is the op chain itself, on the
\* waiter path it is set by the waiter on the op chain, to the op chain's
\* state; out_chain is concrete only when the op chain is.
C5_OutChainAfterOpChain ==
  /\ (s_dispatched > 0 /\ IsAvailable(OutChainState)) =>
       IsAvailable(s_op_chain)
  /\ (OutChainState = "concrete") =>
       (s_dispatched = 1 /\ s_op_chain = "concrete")
  /\ (s_path = "fast" /\ s_dispatched > 0) => s_out_ref = "op_chain"
  /\ (s_path = "waiter") =>
       /\ s_out_ref = "own"
       /\ (s_dispatched > 0 /\ IsAvailable(s_out_own)) =>
            (s_out_writer = "op_chain_waiter" /\ s_out_own = s_op_chain)
       /\ (s_dispatched = 0 /\ IsAvailable(s_out_own)) =>
            (s_out_writer = "propagate_error" /\ s_out_own = "error")

C5_Witness ==
  /\ s_path = "waiter"
  /\ s_dispatched = 1
  /\ s_out_writer = "op_chain_waiter"
  /\ s_out_own = "concrete"
  /\ s_pc = "done"

\* C6 as claimed: when op_handler, in_chain or an argument is an error,
\* the kernel ends with out_chain and every result an error and without
\* having called ExecuteOpImpl.
C6_InputErrorBlocksDispatch ==
  (/\ s_pc = "done"
   /\ s_path \in {"fast", "waiter"}
   /\ \/ s_handler = "error"
      \/ s_in_chain = "error"
      \/ \E i \in DOMAIN s_args : s_args[i] = "error")
  => /\ s_dispatched = 0
     /\ OutChainState = "error"
     /\ \A i \in DOMAIN s_results : s_results[i] = "error"

\* C27 as claimed: once corert.executeop.seq has been called and
\* op_handler, in_chain and every argument are available, out_chain and
\* every result eventually are available (concrete or error), on the fast
\* path and on the waiter path, whether the op is found or not and whether
\* a CoreRuntime is there or not.
C27_ResultsEventuallyResolve ==
  (/\ s_pc # "idle"
   /\ IsAvailable(s_handler)
   /\ IsAvailable(s_in_chain)
   /\ \A i \in DOMAIN s_args : IsAvailable(s_args[i]))
  ~> (/\ IsAvailable(OutChainState)
      /\ \A i \in DOMAIN s_results : IsAvailable(s_results[i]))

\* C27: once corert.executeop.seq has been called and op_handler, in_chain
\* and every argument are available, eventually out_chain and every result
\* are available (concrete or error), or the op has been dispatched and
\* has not completed its chain or one of its results; the kernel leaves
\* nothing unresolved that the dispatched op does not, on the fast path
\* and on the waiter path, whether the op is found or not and whether a
\* CoreRuntime is there or not.
C27_ResolvedUnlessOpPending ==
  (/\ s_pc # "idle"
   /\ IsAvailable(s_handler)
   /\ IsAvailable(s_in_chain)
   /\ \A i \in DOMAIN s_args : IsAvailable(s_args[i]))
  ~> (\/ /\ IsAvailable(OutChainState)
         /\ \A i \in DOMAIN s_results : IsAvailable(s_results[i])
      \/ /\ s_dispatched > 0
         /\ \/ ~IsAvailable(s_op_chain)
            \/ \E i \in DOMAIN s_results : ~IsAvailable(s_results[i]))

\* The waiter path ended in propgate_error: the out chain and the results,
\* which were allocated and not available, are errors.
C27_Witness ==
  /\ s_pc = "done"
  /\ s_path = "waiter"
  /\ s_out_writer = "propagate_error"
  /\ s_dispatched = 0
  /\ IsAvailable(s_handler) /\ IsAvailable(s_in_chain)
  /\ \A i \in DOMAIN s_args : IsAvailable(s_args[i])
  /\ Len(s_results) > 0
  /\ OutChainState = "error"
  /\ \A i \in DOMAIN s_results : s_results[i] = "error"

(***************************************************************************)
(* Properties of async values                                              *)
(***************************************************************************)
\* C7: the state of an async value never moves backwards in
\* Unconstructed -> Constructed -> Concrete or Error, and once a value is
\* Concrete or Error no step (set, emplace, SetError, ForwardTo) changes its
\* state or its payload.
C7_MonotonicStates ==
  [][\A v \in AVIds :
       /\ StateRank(a_state'[v]) >= StateRank(a_state[v])
       /\ IsTerminal(a_state[v]) =>
            (a_state'[v] = a_state[v] /\ a_payload'[v] = a_payload[v])]_vars

C7_Witness ==
  /\ a_rejected
  /\ \A v \in AVIds : IsTerminal(a_state[v])
  /\ a_state[PlainAV] # a_state[IndirectAV]

\* C8: every registered callback runs at most once, and exactly once as
\* soon as its value is terminal and the transition's thread has run what
\* it took; it runs inline on the registering thread iff the value was
\* terminal at registration, otherwise on the thread that made the
\* transition; it observes the terminal state of its value.
C8_CallbacksExactlyOnce ==
  \A c \in 1..MaxCallbacks :
    /\ cb_runs[c] <= 1
    /\ cb_reg[c] = "none" => cb_runs[c] = 0
    /\ cb_runs[c] = 1 =>
         (IsTerminal(cb_seen[c]) /\ cb_seen[c] = a_state[cb_av[c]])
    /\ cb_reg[c] # "none" =>
         (cb_reg[c] = "inline" <=> IsTerminal(cb_at_reg[c]))
    /\ cb_reg[c] = "inline" =>
         (cb_runs[c] = 1 /\ cb_thread[c] = cb_reg_thread[c])
    /\ cb_reg[c] = "enqueued" =>
         IF IsTerminal(a_state[cb_av[c]])
           THEN \/ cb_runs[c] = 1 /\ cb_thread[c] = a_writer[cb_av[c]]
                \/ cb_runs[c] = 0 /\ c \in a_pending[a_writer[cb_av[c]]]
           ELSE cb_runs[c] = 0 /\ c \in a_waiters[WaitersOf(cb_av[c])]

C8_Witness ==
  /\ \A c \in 1..MaxCallbacks : cb_runs[c] = 1
  /\ \E c \in 1..MaxCallbacks : cb_reg[c] = "inline"
  /\ \E c \in 1..MaxCallbacks :
       /\ cb_reg[c] = "enqueued"
       /\ cb_av[c] = IndirectAV
       /\ a_fwd = PlainAV
       /\ cb_thread[c] # cb_reg_thread[c]

(***************************************************************************)
(* Properties of the MLIR to BEF converter                                 *)
(***************************************************************************)
\* C9 as claimed: converting the same module twice gives the same bytes,
\* wherever its operations lie in memory.
C9_SameModuleSameImage ==
  (b_run = 2 /\ b_pc = "done") => result_.bytes = b_prev

\* the table is a fixed point of adding what it holds, indices are dense in
\* the order of the pools, and every pooled name is a string of the table,
\* emitted once
C10_Idempotent ==
  LET e == b_collect.e
      strs_in_order == SortStrings(e.strings)
      Occurrences(seq, x) == Cardinality({k \in DOMAIN seq : seq[k] = x})
  IN /\ \A k \in DOMAIN e.types :
          /\ AddType(e, e.types[k]) = e
          /\ e.type_ids[e.types[k]] = k - 1
          /\ Occurrences(e.types, e.types[k]) = 1
          /\ Occurrences(strs_in_order, PrintType(e.types[k])) = 1
     /\ DOMAIN e.type_ids = {e.types[k] : k \in DOMAIN e.types}
     /\ \A k \in DOMAIN e.kernels :
          /\ AddKernel(e, e.kernels[k]) = e
          /\ e.kernel_ids[e.kernels[k]] = k - 1
          /\ Occurrences(e.kernels, e.kernels[k]) = 1
          /\ Occurrences(strs_in_order, e.kernels[k]) = 1
     /\ DOMAIN e.kernel_ids = {e.kernels[k] : k \in DOMAIN e.kernels}
     /\ \A k \in DOMAIN e.attributes :
          /\ InsertAttribute(e, e.attributes[k]) = e
          /\ Occurrences(e.attributes, e.attributes[k]) = 1

\* within one conversion a pool only grows at its end and an index, once
\* assigned, stays
C10_IndicesKept ==
  (b_run' = b_run) =>
    LET e == b_collect.e
        f == b_collect'.e
    IN /\ SubSeq(f.types, 1, Len(e.types)) = e.types
       /\ SubSeq(f.kernels, 1, Len(e.kernels)) = e.kernels
       /\ SubSeq(f.attributes, 1, Len(e.attributes)) = e.attributes
       /\ \A ty \in DOMAIN e.type_ids : f.type_ids[ty] = e.type_ids[ty]
       /\ \A name \in DOMAIN e.kernel_ids :
            f.kernel_ids[name] = e.kernel_ids[name]
       /\ e.strings \subseteq f.strings

\* C10: adding a type, a kernel name or an attribute that is pooled leaves
\* the pools, the indices and the strings unchanged; a type and a kernel
\* name keep the index of their first insertion, indices are dense in
\* first-encounter order, and their string is in the string pool once.
C10_InterningIdempotent == []C10_Idempotent /\ [][C10_IndicesKept]_vars

\* The walk has visited two kernels of the same name, two operations
\* with a result of the same type and two kernels with the same attribute:
\* AddKernel, AddType and the insert into attributes have each been called
\* on what the pool held.
C10_Witness ==
  /\ b_pc = "done"
  /\ b_collect.result = "Success"
  /\ LET ir == IRs[b_ir]
         Pooled(attr) ==
           /\ attr.name \notin {Str("_tfrt_cost"), Str("bef.nonstrict")}
           /\ attr.value.kind = "int"
     IN /\ \E i, j \in DOMAIN ir :
             /\ i < j
             /\ ir[i].kind = "kernel" /\ ir[j].kind = "kernel"
             /\ ir[i].name = ir[j].name
        /\ \E i, j \in DOMAIN ir :
             /\ i < j
             /\ \E k \in DOMAIN ir[i].results, l \in DOMAIN ir[j].results :
                  ir[i].results[k] = ir[j].results[l]
        /\ \E i, j \in DOMAIN ir :
             /\ i < j
             /\ ir[i].kind = "kernel" /\ ir[j].kind = "kernel"
             /\ \E k \in DOMAIN ir[i].attrs, l \in DOMAIN ir[j].attrs :
                  /\ Pooled(ir[i].attrs[k])
                  /\ ir[i].attrs[k].value = ir[j].attrs[l].value
  /\ Len(b_collect.e.types) = 2
  /\ Len(b_collect.e.kernels) = 2
  /\ Len(b_collect.e.attributes) = 1

(***************************************************************************)
(* Properties of the function table                                        *)
(***************************************************************************)
\* C11 as claimed: after pass 1 no two entries of the function table have
\* the same name, the functions created for regions included.
C11_FunctionNamesUnique ==
  (b_pc = "done" /\ b_collect.result = "Success") =>
    LET functions == b_collect.e.functions
    IN \A i, j \in DOMAIN functions :
         i # j => functions[i].name # functions[j].name

\* C11: two entries of the function table have the same name only if both
\* were created for regions of operations that are not functions, and
\* their name is then the empty string; lookup by the name of a function
\* of the module identifies its entry, and every function with a body is
\* identified by its region.
C11_NamedFunctionsUnique ==
  LET e == b_collect.e
      ForRegionOfKernel(f) ==
        /\ f.name = Str("")
        /\ f.kind = "kBEFFunction"
        /\ IRs[b_ir][f.region[1]].kind = "kernel"
  IN \A i \in DOMAIN e.functions :
       /\ \A j \in DOMAIN e.functions :
            (i # j /\ e.functions[i].name = e.functions[j].name) =>
              (ForRegionOfKernel(e.functions[i])
                 /\ ForRegionOfKernel(e.functions[j]))
       /\ ~ForRegionOfKernel(e.functions[i]) =>
            GetFunctionNamed(e, e.functions[i].name) = i - 1
       /\ e.functions[i].kind # "kNativeFunction" =>
            e.region_function_ids[e.functions[i].region] = i - 1

C11_Witness ==
  /\ b_pc = "done"
  /\ b_collect.result = "Success"
  /\ LET e == b_collect.e
     IN /\ \E i, j \in DOMAIN e.functions :
             i < j /\ e.functions[i].name = Str("")
                   /\ e.functions[j].name = Str("")
        /\ GetFunctionNamed(e, Str("main")) = 2
        /\ GetFunctionNamed(e, Str("g")) = 3

\* C12 as claimed: when the conversion is over, if a symbol reference
\* among the attributes of a kernel, alone or in an array, names a
\* function that is not in the function table, the result is a failure
\* and no byte is returned, and unless the walk met another fatal
\* condition the error is "function not defined", at the kernel of the
\* first such reference; if every reference names a function of the
\* table, defined before or after the kernel, and the walk met no fatal
\* condition, the conversion succeeds.
C12_UndefinedFunctionFails ==
  (b_pc = "done") =>
    LET ir == IRs[b_ir]
        diags == b_collect.diags
        References(value) ==
          CASE value.kind = "sym" -> {value.sval}
            [] value.kind = "array" ->
                 {value.elems[n].sval :
                    n \in {n \in DOMAIN value.elems :
                             value.elems[n].kind = "sym"}}
            [] OTHER -> {}
        Undefined(i, k) ==
          /\ ir[i].kind = "kernel"
          /\ ir[i].attrs[k].name \notin {Str("_tfrt_cost"),
                                          Str("bef.nonstrict")}
          /\ \E name \in References(ir[i].attrs[k].value) :
               \A f \in DOMAIN b_collect.e.functions :
                  b_collect.e.functions[f].name # name
        undefined == {i \in DOMAIN ir :
                        \E k \in DOMAIN ir[i].attrs : Undefined(i, k)}
    IN /\ undefined # {} =>
            /\ b_collect.result = "Failure"
            /\ result_.bytes = <<>>
            /\ diags # <<>>
            /\ (\A k \in DOMAIN diags :
                  diags[k].msg = "function not defined") =>
                 /\ Len(diags) = 1
                 /\ diags[1].op \in undefined
       /\ (undefined = {} /\ diags = <<>>) =>
            /\ b_collect.result = "Success"
            /\ result_.bytes # <<>>

\* C13: a module with a return that is not the last operation of its block,
\* an operand defined outside the region of its user, a function without
\* a body that is not native, a function that does not end in a return, a
\* region that is not one block, or an attribute that cannot be encoded
\* gives a failure and an empty buffer; within a conversion a failure is
\* never reset, and after a failure no byte is emitted.
C13_FatalIsFinal ==
  [][LET ir == IRs[b_ir]
        \* operation i meets one of the fatal conditions
        Fatal(i) ==
          LET op == ir[i]
              block == BlockOps(ir, op.parent, {op.region})
              body == BlockOps(ir, i, {1})
          IN \/ IsReturn(op) /\ block[Len(block)] # i
             \/ /\ ~IsReturn(op)
                /\ \E k \in DOMAIN op.operands :
                     ValueRegion(ir, op.operands[k]) # <<op.parent, op.region>>
             \/ op.kind = "func" /\ ~op.native /\ op.nblocks[1] = 0
             \/ /\ op.kind = "func" /\ ~op.native /\ op.nblocks[1] > 0
                /\ ~IsReturn(ir[body[Len(body)]])
             \/ /\ ~op.native
                /\ \E r \in DOMAIN op.nblocks : op.nblocks[r] > 1
             \/ /\ op.kind = "kernel"
                /\ \E k \in DOMAIN op.attrs :
                     /\ op.attrs[k].value.kind = "unsupported"
                     /\ op.attrs[k].name \notin {Str("_tfrt_cost"),
                                                  Str("bef.nonstrict")}
        \* the operations the walk has visited
        walked == {i \in DOMAIN ir : \A k \in DOMAIN b_walk : b_walk[k] # i}
        FatalFails ==
          /\ (b_pc \in {"collect", "done"} /\ \E i \in walked : Fatal(i)) =>
               (b_collect.result = "Failure")
          /\ (b_collect.result = "Failure") => (result_.bytes = <<>>)
    IN /\ FatalFails'
       /\ (b_collect.result = "Failure" /\ b_run' = b_run) =>
            (b_collect'.result = "Failure")
  ]_vars

C13_Witness ==
  /\ b_pc = "done"
  /\ b_ir = 7
  /\ b_collect.result = "Failure"
  /\ Len(b_collect.diags) = 3
  /\ b_collect.diags[1].msg = "return op must be at the end of its block"
  /\ result_.bytes = <<>>

(***************************************************************************)
(* Properties of the sections                                              *)
(***************************************************************************)
\* C14: a section is its id, the variable-byte integer (len << 1) | flag
\* and its payload; the flag is 1 exactly when the required alignment n is
\* more than 1 and the payload would start off a multiple of n right after
\* the length, and then the byte n and zero bytes come before the payload;
\* the payload always starts at a file offset that is a multiple of n.
C14_SectionLayout ==
  (sec.pc = "emitted") =>
    LET out == sec.out.bytes
        prefix == Len(sec.file.bytes)
        len == Len(sec.data.bytes)
        n == sec.data.alignment
        \* the variable-byte integer read at position pos
        RECURSIVE ReadVbr(_, _)
        ReadVbr(pos, acc) ==
          IF out[pos] >= 128
            THEN ReadVbr(pos + 1, acc * 128 + (out[pos] % 128))
            ELSE [value |-> acc * 128 + out[pos], next |-> pos + 1]
        header == ReadVbr(prefix + 2, 0)
        flag == header.value % 2
        \* the file offset right after the length
        natural == header.next - 1
        \* the file offset of the payload
        start == Len(out) - len
    IN /\ SubSeq(out, 1, prefix) = sec.file.bytes
       /\ out[prefix + 1] = BEFSectionID(sec.section)
       /\ header.value \div 2 = len
       /\ (flag = 1) <=> (n > 1 /\ natural % n # 0)
       /\ flag = 0 => start = natural
       /\ flag = 1 =>
            /\ out[natural + 1] = n
            /\ start > natural /\ start - natural <= n
            /\ \A k \in (natural + 2)..start : out[k] = 0
       /\ SubSeq(out, start + 1, start + len) = sec.data.bytes
       /\ start % n = 0

C14_Witness ==
  /\ sec.pc = "emitted"
  /\ sec.data.alignment = 8
  /\ Len(sec.data.bytes) = 64
  /\ Len(sec.file.bytes) = 2
  /\ Len(sec.out.bytes) = 72
  /\ SubSeq(sec.out.bytes, 3, 8) =
       <<BEFSectionID(sec.section), 129, 1, 8, 0, 0>>

(***************************************************************************)
(* Properties of the functions section                                     *)
(***************************************************************************)
\* C15: in the functions section of a compiled module, the kernel table of
\* every function has one entry for the pseudo kernel and one per
\* operation that is not a return; the kernel list and every record its
\* entries point to start at a multiple of 4 from the start of the
\* section; the records are those of the kernels, in order, one after the
\* other up to the end of the function.
C15_KernelRecordsAligned ==
  (b_pc = "done" /\ b_collect.result = "Success") =>
    LET ir == IRs[b_ir]
        e == b_collect.e
        function_index == entity_index_.function_index
        sections == ReadSections(result_.bytes, 3)
        section == sections[CHOOSE k \in DOMAIN sections :
                              sections[k].id = BEFSectionID("kFunctions")]
        payload == SubSeq(result_.bytes, section.start + 1,
                          section.start + section.len)
    IN \A j \in DOMAIN function_index :
         function_index[j].kind # "kNativeFunction" =>
           LET f == ReadFunction(payload, function_index[j].function_offset,
                                 Len(ReturnOperands(IRs[b_ir],
                          e.functions[j].region[1],
                          e.functions[j].region[2])))
               NotReturn(i) == ~IsReturn(ir[i])
               ops == SelectSeq(BlockOps(ir, e.functions[j].region[1],
                                         {e.functions[j].region[2]}),
                                NotReturn)
               start(k) == f.kernel_list + f.kernels[k].offset
               end == IF j < Len(function_index)
                        THEN function_index[j + 1].function_offset
                        ELSE Len(payload)
           IN /\ Len(f.kernels) = Len(ops) + 1
              /\ \A k \in DOMAIN f.kernels : start(k) % 4 = 0
              /\ f.kernels[1].offset = 0
              /\ SubSeq(payload, start(1) + 1, start(1) + 8) =
                   <<171, 171, 171, 171, 205, 205, 205, 205>>
              /\ \A k \in 2..Len(f.kernels) :
                   /\ ReadKernel(payload, start(k)).code =
                        e.kernel_ids[ir[ops[k - 1]].name]
                   /\ ReadKernel(payload, start(k)).location =
                        entity_index_.location_position_offsets[ops[k - 1]]
              /\ \A k \in DOMAIN f.kernels :
                   ReadKernel(payload, start(k)).end =
                     IF k < Len(f.kernels) THEN start(k + 1) ELSE end

C15_Witness ==
  /\ b_pc = "done"
  /\ b_collect.result = "Success"
  /\ b_ir = 6
  /\ Len(entity_index_.function_index) = 4
  /\ entity_index_.function_index[3].function_offset > 0
  /\ LET sections == ReadSections(result_.bytes, 3)
         section == sections[CHOOSE k \in DOMAIN sections :
                               sections[k].id = BEFSectionID("kFunctions")]
         payload == SubSeq(result_.bytes, section.start + 1,
                           section.start + section.len)
         region == ReadFunction(payload, 0, 0)
         main == ReadFunction(payload,
                              entity_index_.function_index[3].function_offset,
                              0)
     IN /\ region.kernel_list > region.header_end
        /\ Len(main.kernels) = 3
        /\ main.kernels[3].offset > main.kernels[2].offset
        /\ main.kernels[2].offset > 0

\* C16: the file of a compiled module is the three magic bytes and then
\* the sections location filenames, location positions, debug info,
\* strings, attributes, kernels, types, function index, functions, and,
\* when the optional sections are wanted and only then, attribute types,
\* attribute names and register types, in this order and up to the end of
\* the file; the function index, in front of the functions, holds for
\* each function the offset at which its body lies in the functions
\* section.
C16_SectionOrder ==
  (b_pc = "done" /\ b_collect.result = "Success") =>
    LET ir == IRs[b_ir]
        e == b_collect.e
        bytes == result_.bytes
        sections == ReadSections(bytes, 3)
        names == <<"kLocationFilenames", "kLocationPositions", "kDebugInfo",
                   "kStrings", "kAttributes", "kKernels", "kTypes",
                   "kFunctionIndex", "kFunctions">>
                   \o (IF b_optional
                         THEN <<"kAttributeTypes", "kAttributeNames",
                                "kRegisterTypes">>
                         ELSE <<>>)
        Payload(k) == SubSeq(bytes, sections[k].start + 1,
                             sections[k].start + sections[k].len)
        \* the entries of the function index from the offset on
        RECURSIVE Entries(_, _)
        Entries(offset, n) ==
          IF n = 0 THEN <<>>
          ELSE LET head == ReadInts(Payload(8), offset + 1, 3, FALSE)
                   inputs == ReadInts(Payload(8), head.next, head.values[3],
                                      FALSE)
                   count == ReadInts(Payload(8), inputs.next, 1, FALSE)
                   results == ReadInts(Payload(8), count.next,
                                       count.values[1], FALSE)
               IN <<[kind |-> Payload(8)[offset + 1],
                     function_offset |-> head.values[1],
                     name_offset |-> head.values[2],
                     inputs |-> inputs.values,
                     results |-> results.values]>>
                    \o Entries(results.next, n - 1)
        entries == Entries(1, Payload(8)[1])
    IN /\ SubSeq(bytes, 1, 3) = <<239, 171, 175>>
       /\ Len(sections) = Len(names)
       /\ \A k \in DOMAIN sections :
            sections[k].id = BEFSectionID(names[k])
       /\ sections[Len(sections)].start + sections[Len(sections)].len =
            Len(bytes)
       /\ Len(entries) = Len(e.functions)
       /\ \A j \in DOMAIN entries :
            /\ entries[j].kind = 1 <=> e.functions[j].kind = "kNativeFunction"
            /\ entries[j].function_offset <= sections[9].len
            /\ Len(entries[j].inputs) = Len(e.functions[j].inputs)
            /\ Len(entries[j].results) = Len(e.functions[j].results)
            /\ e.functions[j].kind # "kNativeFunction" =>
                 LET f == ReadFunction(Payload(9), entries[j].function_offset,
                                       Len(ReturnOperands(IRs[b_ir],
                          e.functions[j].region[1],
                          e.functions[j].region[2])))
                     p == e.functions[j].region[1]
                     r == e.functions[j].region[2]
                     NotReturn(i) == ~IsReturn(ir[i])
                 IN /\ entries[j].function_offset < sections[9].len
                    /\ f.location =
                         entity_index_.location_position_offsets[p]
                    /\ Len(f.use_counts) = Len(Registers(ir, p, r))
                    /\ Len(f.kernels) =
                         Len(SelectSeq(BlockOps(ir, p, {r}), NotReturn)) + 1

C16_Witness ==
  /\ b_pc = "done"
  /\ b_collect.result = "Success"
  /\ b_ir = 3
  /\ b_optional
  /\ Len(entity_index_.function_index) = 3
  /\ LET sections == ReadSections(result_.bytes, 3)
     IN /\ [k \in DOMAIN sections |-> sections[k].id] =
             <<1, 2, 3, 4, 5, 6, 7, 8, 9, 10, 11, 12>>
        /\ sections[9].len > 0
        /\ sections[11].len > 0
        /\ sections[12].len > 0

\* C17: for every operation of a compiled function that is not a return,
\* the kernel table holds the number of its operands as
\* num_operands_before_running, or the smaller of 1 and that number when
\* the operation has the attribute bef.nonstrict; bit 0x1 of the special
\* flags of its kernel record is set exactly when it has that attribute.
C17_NonStrict ==
  (b_pc = "done" /\ b_collect.result = "Success") =>
    LET ir == IRs[b_ir]
        e == b_collect.e
        sections == ReadSections(result_.bytes, 3)
        payload == SubSeq(result_.bytes, sections[9].start + 1,
                          sections[9].start + sections[9].len)
    IN \A j \in DOMAIN e.functions :
         e.functions[j].kind # "kNativeFunction" =>
           LET f == ReadFunction(
                      payload,
                      entity_index_.function_index[j].function_offset,
                      Len(ReturnOperands(IRs[b_ir],
                          e.functions[j].region[1],
                          e.functions[j].region[2])))
               NotReturn(i) == ~IsReturn(ir[i])
               ops == SelectSeq(BlockOps(ir, e.functions[j].region[1],
                                         {e.functions[j].region[2]}),
                                NotReturn)
           IN \A k \in DOMAIN ops :
                LET op == ir[ops[k]]
                    marked == \E n \in DOMAIN op.attrs :
                                 op.attrs[n].name = Str("bef.nonstrict")
                    record == ReadKernel(payload,
                                         f.kernel_list
                                           + f.kernels[k + 1].offset)
                IN /\ f.kernels[k + 1].num_operands_before_running =
                        IF marked /\ Len(op.operands) > 1 THEN 1
                        ELSE Len(op.operands)
                   /\ (record.special_flags % 2 = 1) <=> marked
                   /\ Len(record.arguments) = Len(op.operands)

C17_Witness ==
  /\ b_pc = "done"
  /\ b_collect.result = "Success"
  /\ b_ir = 10
  /\ LET sections == ReadSections(result_.bytes, 3)
         payload == SubSeq(result_.bytes, sections[9].start + 1,
                           sections[9].start + sections[9].len)
         main == ReadFunction(payload, 0, 1)
     IN /\ [k \in 1..4 |-> main.kernels[k].num_operands_before_running] =
             <<0, 1, 0, 3>>
        /\ ReadKernel(payload, main.kernel_list
                                 + main.kernels[2].offset).special_flags = 3
        /\ Len(ReadKernel(payload,
                          main.kernel_list
                            + main.kernels[2].offset).arguments) = 2
        /\ ReadKernel(payload, main.kernel_list
                                 + main.kernels[4].offset).special_flags = 0

\* C18: the first kernel record of every compiled function is the pseudo
\* kernel: its results are one more than the block arguments; the first
\* is the register numbered with the count of the registers of the
\* function, the others are the registers of the block arguments; the
\* users of the first result are the kernel indices of the operations of
\* the block without operands that are not the return, each once.
C18_PseudoKernel ==
  (b_pc = "done" /\ b_collect.result = "Success") =>
    LET ir == IRs[b_ir]
        e == b_collect.e
        sections == ReadSections(result_.bytes, 3)
        payload == SubSeq(result_.bytes, sections[9].start + 1,
                          sections[9].start + sections[9].len)
    IN \A j \in DOMAIN e.functions :
         e.functions[j].kind # "kNativeFunction" =>
           LET p == e.functions[j].region[1]
               r == e.functions[j].region[2]
               f == ReadFunction(
                      payload,
                      entity_index_.function_index[j].function_offset,
                      Len(ReturnOperands(IRs[b_ir],
                          e.functions[j].region[1],
                          e.functions[j].region[2])))
               pseudo == ReadKernel(payload, f.kernel_list)
               NotReturn(i) == ~IsReturn(ir[i])
               ops == SelectSeq(BlockOps(ir, p, {r}), NotReturn)
               num_arguments == Len(ir[p].args[r])
               num_registers ==
                 num_arguments
                   + Cardinality(UNION {
                       {<<i, n>> : n \in DOMAIN ir[i].results} :
                         i \in {i \in DOMAIN ir : /\ ir[i].parent = p
                                                  /\ ir[i].region = r}})
               triggered == pseudo.users[1]
           IN /\ SubSeq(payload, f.kernel_list + 1, f.kernel_list + 8) =
                   <<171, 171, 171, 171, 205, 205, 205, 205>>
              /\ pseudo.arguments = <<>>
              /\ pseudo.attributes = <<>>
              /\ pseudo.functions = <<>>
              /\ pseudo.special_flags = 0
              /\ Len(pseudo.results) = num_arguments + 1
              /\ pseudo.results[1] = num_registers
              /\ Len(f.use_counts) = num_registers
              /\ \A n \in 1..num_arguments : pseudo.results[n + 1] = n - 1
              /\ \A m, n \in DOMAIN triggered :
                   m # n => triggered[m] # triggered[n]
              /\ {triggered[n] : n \in DOMAIN triggered} =
                   {k \in DOMAIN ops : ir[ops[k]].operands = <<>>}

C18_Witness ==
  /\ b_pc = "done"
  /\ b_collect.result = "Success"
  /\ b_ir = 10
  /\ LET sections == ReadSections(result_.bytes, 3)
         payload == SubSeq(result_.bytes, sections[9].start + 1,
                           sections[9].start + sections[9].len)
         pseudo == ReadKernel(payload, ReadFunction(payload, 0, 1).kernel_list)
     IN /\ pseudo.results = <<4, 0, 1>>
        /\ pseudo.users = << <<2>>, <<1>>, <<1>> >>

\* C19 as claimed: after a successful Collect the first entry of the
\* function table is the function the module names first, and the table
\* holds every function a kernel refers to by a symbol reference, alone
\* or in an array of symbol references, and every region of a kernel.
C19_FunctionsPresent ==
  (b_pc = "done" /\ b_collect.result = "Success") =>
    LET ir == IRs[b_ir]
        e == b_collect.e
        Present(name) ==
          \E j \in DOMAIN e.functions :
             /\ e.functions[j].name = name
             /\ GetFunctionNamed(e, name) = j - 1
        first == CHOOSE i \in DOMAIN ir :
                   /\ ir[i].kind = "func"
                   /\ \A j \in 1..(i - 1) : ir[j].kind # "func"
    IN /\ e.functions[1].name = ir[first].name
       /\ \A i \in DOMAIN ir :
            ir[i].kind = "kernel" =>
              /\ \A k \in DOMAIN ir[i].attrs :
                   LET value == ir[i].attrs[k].value
                   IN /\ value.kind = "sym" => Present(value.sval)
                      /\ IsFunctionArray(value) =>
                           \A n \in DOMAIN value.elems :
                              Present(value.elems[n].sval)
              /\ \A r \in DOMAIN ir[i].nblocks :
                   /\ <<i, r>> \in DOMAIN e.region_function_ids
                   /\ e.functions[e.region_function_ids[<<i, r>>] + 1].region
                        = <<i, r>>

(***************************************************************************)
(* Properties of the predicate of a condition tensor                       *)
(***************************************************************************)
\* C20 as claimed: the predicate corert.cond computes from a dense host
\* tensor of a single element is true exactly when the element is not
\* zero; from a string host tensor it is false exactly when the tensor
\* has no element or its first element is the empty string; for a tensor
\* of another kind every result gets the error "tensor predicate does not
\* support type".
C20_PredicateRule ==
  (c_ht.kind # "none") =>
    /\ (c_ht.kind = "dense" /\ Len(c_ht.elems) = 1) =>
         /\ c_pc = "done"
         /\ c_pred = IF c_ht.elems[1] # 0 THEN "true" ELSE "false"
    /\ c_ht.kind = "string" =>
         /\ c_pc = "done"
         /\ c_pred = IF c_ht.elems = <<>> \/ c_ht.elems[1] = 0 THEN "false"
                     ELSE "true"
    /\ c_ht.kind = "other" =>
         /\ c_pc = "done"
         /\ c_pred = "none"
         /\ c_true_calls + c_false_calls = 0
         /\ \A i \in DOMAIN c_results :
              /\ c_results[i].st = "error"
              /\ c_results[i].to =
                   <<"tensor predicate does not support type", 0, 0>>

(***************************************************************************)
(* Properties of the error paths of corert.while and corert.cond           *)
(***************************************************************************)
\* C21 as claimed: when a condition evaluation of corert.while has come to
\* its end and an output of cond_fn is an error, or the predicate tensor
\* handle carries an error, or its tensor or the host conversion failed,
\* or the handle is not on a CPU device, or the kind of the predicate
\* tensor is not supported, then every result is an error, body_fn was not
\* invoked for that iteration and no further iteration is scheduled.
C21_ErrorStopsLoop ==
  LET failed ==
        \/ w_chain = "error"
        \/ w_th = "error"
        \/ w_tensor = "error"
        \/ w_host = "error"
        \/ ~w_cpu
        \/ w_ht.kind = "other"
      IsErrorResult(r) ==
        \/ r.st = "error"
        \/ /\ r.st = "forwarded"
           /\ r.to[1] \in {"cond_th", "cond_tensor", "cond_host"}
  IN (w_pc \in {"queued", "done"} /\ w_exit # "cancel" /\ failed) =>
       /\ w_pc = "done"
       /\ w_exit = "error"
       /\ w_body_calls = w_cond_calls - 1
       /\ \A i \in DOMAIN w_results : IsErrorResult(w_results[i])

\* C28: in corert.cond and corert.while ForwardTo or SetError is called at
\* most once on each indirect result, whatever the order in which the
\* awaited values become available; results are resolved only by the step
\* that ends the kernel, all of them by the same path (cancellation,
\* error, predicate false, or the branch function), and a resolved result
\* is never changed afterwards.
C28_ResolvedOnce ==
  /\ \A i \in DOMAIN w_results :
       /\ w_results[i].n <= 1
       /\ w_results[i].n = 1 <=> w_pc = "done"
       /\ w_results[i].n = 1 =>
            CASE w_exit = "cancel" ->
                   w_results[i] = [st |-> "forwarded",
                                   to |-> <<"cancel", 0, 0>>, n |-> 1]
              [] w_exit = "false" ->
                   w_results[i] = [st |-> "forwarded", to |-> w_args[i],
                                   n |-> 1]
              [] w_exit = "error" ->
                   \/ w_results[i].st = "error"
                   \/ w_results[i].to[1] \in {"cond_th", "cond_tensor",
                                              "cond_host"}
              [] OTHER -> FALSE
  /\ \A j \in DOMAIN c_results :
       /\ c_results[j].n <= 1
       /\ c_results[j].n = 1 <=> c_pc = "done"
       /\ c_results[j].n = 1 =>
            \/ /\ c_results[j].st = "error"
               /\ c_true_calls + c_false_calls = 0
            \/ /\ c_results[j].to[1] \in {"cond_th", "cond_tensor",
                                           "cond_host"}
               /\ c_true_calls + c_false_calls = 0
            \/ /\ c_results[j].st = "forwarded"
               /\ c_results[j].to[1] \notin {"cond_th", "cond_tensor",
                                             "cond_host"}
               /\ c_true_calls + c_false_calls = 1

C28_ResolvedKept ==
  /\ \A i \in DOMAIN w_results :
       w_results[i].n > 0 =>
         (i \in DOMAIN w_results' /\ w_results'[i] = w_results[i])
  /\ \A j \in DOMAIN c_results :
       c_results[j].n > 0 =>
         (j \in DOMAIN c_results' /\ c_results'[j] = c_results[j])

C28_ResolvedAtMostOnce == []C28_ResolvedOnce /\ [][C28_ResolvedKept]_vars

\* corert.while with two results was cancelled after a run of the body:
\* both results were forwarded once, to the cancel value.
C28_Witness ==
  /\ w_pc = "done"
  /\ w_exit = "cancel"
  /\ w_body_calls >= 1
  /\ Len(w_results) = 2
  /\ \A i \in DOMAIN w_results :
       w_results[i] = [st |-> "forwarded", to |-> <<"cancel", 0, 0>>,
                       n |-> 1]

\* C22: in corert.cond an error at any step of the predicate chain (the
\* predicate handle is an error, the handle carries an error tensor, the
\* conversion to a host tensor failed, the kind of the predicate tensor
\* is not supported) leaves neither true_fn nor false_fn invoked, and once
\* the kernel is done every result is that error, set exactly once.
C22_CondErrorPropagates ==
  LET failed ==
        \/ c_th = "error"
        \/ c_tensor = "error"
        \/ c_host = "error"
        \/ c_ht.kind = "other"
      error ==
        IF c_th = "error" THEN [st |-> "forwarded", to |-> <<"cond_th", 0, 0>>]
        ELSE IF c_tensor = "error"
          THEN [st |-> "forwarded", to |-> <<"cond_tensor", 0, 0>>]
        ELSE IF c_host = "error"
          THEN [st |-> "forwarded", to |-> <<"cond_host", 0, 0>>]
        ELSE [st |-> "error",
              to |-> <<"tensor predicate does not support type", 0, 0>>]
  IN failed =>
       /\ c_true_calls = 0 /\ c_false_calls = 0
       /\ c_pc \notin {"idle", "aborted"}
       /\ c_pc = "done" =>
            \A i \in DOMAIN c_results :
              c_results[i] = [st |-> error.st, to |-> error.to, n |-> 1]

\* corert.cond with two results is done after the conversion of the
\* predicate to a host tensor failed.
C22_Witness ==
  /\ c_pc = "done"
  /\ c_th = "concrete" /\ c_tensor = "concrete" /\ c_host = "error"
  /\ Len(c_results) = 2
  /\ c_results[2].to = <<"cond_host", 0, 0>>

(***************************************************************************)
(* Properties of corert.tensorhandle_to_shape and corert_sync.executeop    *)
(***************************************************************************)
\* the result of tensorhandle_to_shape at every moment after the call
C23_ShapeResult ==
  (shp.pc # "idle") =>
    IF shp.at_call = "concrete"
      THEN /\ shp.pc = "done" /\ ~shp.indirect
           /\ shp.result = [st |-> "concrete",
                            to |-> [kind |-> "shape",
                                    shape |-> shp.meta.shape, err |-> 0],
                            n |-> 0]
      ELSE /\ shp.indirect
           /\ (shp.meta.st = "unavailable") =>
                (shp.pc = "waiting" /\ shp.result.st = "unresolved"
                   /\ shp.result.n = 0)
           /\ (shp.pc = "waiting") => shp.result.st = "unresolved"
           /\ (shp.pc = "done") =>
                /\ shp.result.st = "forwarded" /\ shp.result.n = 1
                /\ shp.result.to =
                     IF shp.meta.st = "error"
                       THEN [kind |-> "error", shape |-> <<>>,
                             err |-> shp.meta.err]
                       ELSE [kind |-> "shape", shape |-> shp.meta.shape,
                             err |-> 0]

\* a result that was emplaced or forwarded is not touched again
C23_ShapeResultKept ==
  (shp.result.st \in {"concrete", "forwarded"}) => (shp' = shp)

\* C23: tensorhandle_to_shape returns the shape as an available result
\* when the metadata of the handle is concrete at the call; otherwise its
\* result is an indirect value that stays unresolved while the metadata is
\* unresolved and is forwarded exactly once, when the metadata has
\* resolved: to the shape of the metadata, or to the error of the metadata.
C23_TensorHandleToShape == []C23_ShapeResult /\ [][C23_ShapeResultKept]_vars

\* The metadata was unresolved at the call and resolved later to the shape
\* 2x3; the result was forwarded to that shape.
C23_Witness ==
  /\ shp.pc = "done" /\ shp.at_call = "unavailable" /\ shp.indirect
  /\ shp.meta.st = "concrete" /\ shp.meta.shape = <<2, 3>>
  /\ shp.result.st = "forwarded" /\ shp.result.to.shape = <<2, 3>>

\* C24 as claimed: corert_sync.executeop returns in one step, with an
\* error when no core runtime is available, when the op lookup fails and
\* when the dispatch of the op fails; it returns success only if the op
\* was dispatched without failure.
C24_SyncErrorOnFailure ==
  /\ syn.pc \in {"idle", "returned"}
  /\ (syn.pc = "returned") =>
       /\ (~syn.core_rt \/ ~syn.found \/ syn.fails) =>
            syn.returned \notin {"none", "success"}
       /\ (syn.returned = "success") =>
            (syn.dispatched = 1 /\ ~syn.fails)

(***************************************************************************)
(* Properties of the functions Collect records                             *)
(***************************************************************************)
\* C25: once the conversion is done, it has failed if the return of a
\* function marked sync (and not native) has a block argument among its
\* operands or the same value twice; the two diagnostics of sync functions
\* are only ever reported on the return of such a function; and when the
\* conversion succeeded, a function the module names is recorded as
\* native iff it is marked native and as sync iff it is marked sync and
\* not native.
C25_SyncFunctions ==
  LET ir == IRs[b_ir]
      Body(i) == BlockOps(ir, i, {1})
      Return(i) == ir[Body(i)[Len(Body(i))]].operands
      BadReturn(i) ==
        \/ \E k \in DOMAIN Return(i) : Return(i)[k].def = 0
        \/ \E j, k \in DOMAIN Return(i) : j # k /\ Return(i)[j] = Return(i)[k]
      Marked(i) == ir[i].kind = "func" /\ ir[i].sync /\ ~ir[i].native
      Kind(i) == IF ir[i].native THEN "kNativeFunction"
                 ELSE IF ir[i].sync THEN "kSyncBEFFunction"
                 ELSE "kBEFFunction"
      sync_diags == {"return value is an argument in a sync function",
                     "return value is duplicated in a sync function"}
  IN (b_pc = "done") =>
       /\ (\E i \in DOMAIN ir : Marked(i) /\ BadReturn(i)) =>
            (b_collect.result = "Failure" /\ result_.bytes = <<>>)
       /\ \A d \in DOMAIN b_collect.diags :
            (b_collect.diags[d].msg \in sync_diags) =>
              \E i \in DOMAIN ir :
                /\ Marked(i) /\ BadReturn(i)
                /\ b_collect.diags[d].op = Body(i)[Len(Body(i))]
       /\ (b_collect.result = "Success") =>
            \A i \in DOMAIN ir :
              (ir[i].kind = "func") =>
                \E j \in DOMAIN b_collect.e.functions :
                  /\ b_collect.e.functions[j].name = ir[i].name
                  /\ b_collect.e.functions[j].kind = Kind(i)

\* Module 12 failed with the diagnostic of a value returned twice, and
\* nothing was emitted.
C25_Witness ==
  /\ b_pc = "done" /\ b_ir = 12
  /\ b_collect.result = "Failure"
  /\ Len(b_collect.diags) = 1
  /\ b_collect.diags[1].msg = "return value is duplicated in a sync function"
  /\ result_.bytes = <<>>

(***************************************************************************)
(* Properties of the registers and the use lists                           *)
(***************************************************************************)
\* C26: in every compiled function the register count is the number of
\* block arguments plus the number of results of the operations of the
\* block; block argument n is register n - 1 and the results follow in
\* program order, so that the registers the kernel records define are
\* exactly 0 .. count - 1 in each function; the operands of the kernels
\* and of the return are written with these numbers.
C26_DenseRegisters ==
  (b_pc = "done" /\ b_collect.result = "Success") =>
    LET ir == IRs[b_ir]
        e == b_collect.e
        sections == ReadSections(result_.bytes, 3)
        payload == SubSeq(result_.bytes, sections[9].start + 1,
                          sections[9].start + sections[9].len)
    IN \A j \in DOMAIN e.functions :
         e.functions[j].kind # "kNativeFunction" =>
           LET p == e.functions[j].region[1]
               r == e.functions[j].region[2]
               f == ReadFunction(
                      payload,
                      entity_index_.function_index[j].function_offset,
                      Len(ReturnOperands(IRs[b_ir],
                          e.functions[j].region[1],
                          e.functions[j].region[2])))
               block == BlockOps(ir, p, {r})
               NotReturn(i) == ~IsReturn(ir[i])
               ops == SelectSeq(block, NotReturn)
               num_arguments == Len(ir[p].args[r])
               \* the results of the operations of the block before i
               Before(i) ==
                 Cardinality(UNION {
                   {<<o, n>> : n \in DOMAIN ir[o].results} :
                     o \in {o \in DOMAIN ir : /\ ir[o].parent = p
                                              /\ ir[o].region = r
                                              /\ o < i}})
               Number(v) ==
                 IF v.def = 0 THEN v.idx - 1
                 ELSE num_arguments + Before(v.def) + v.idx - 1
               Kernel(k) == ReadKernel(payload,
                                       f.kernel_list + f.kernels[k].offset)
               returned == ReturnOperands(ir, p, r)
           IN /\ Len(f.use_counts) = num_arguments + Before(Len(ir) + 1)
              /\ Len(f.kernels) = Len(ops) + 1
              /\ \A k \in DOMAIN ops :
                   LET op == ir[ops[k]]
                   IN /\ Kernel(k + 1).results =
                           [n \in DOMAIN op.results |->
                              Number(Value(ops[k], n, 0, 0))]
                      /\ Kernel(k + 1).arguments =
                           [n \in DOMAIN op.operands |->
                              Number(op.operands[n])]
              /\ f.results = [n \in DOMAIN returned |->
                                Number(returned[n])]
              /\ {Kernel(1).results[n + 1] : n \in 1..num_arguments}
                   \cup UNION {{Kernel(k + 1).results[n] :
                                  n \in DOMAIN Kernel(k + 1).results} :
                                k \in DOMAIN ops}
                   = 0..(Len(f.use_counts) - 1)

\* Module 2 is compiled: the function f and the function main each hold
\* one register, numbered 0 in both.
C26_Witness ==
  /\ b_pc = "done" /\ b_collect.result = "Success" /\ b_ir = 2
  /\ LET sections == ReadSections(result_.bytes, 3)
         payload == SubSeq(result_.bytes, sections[9].start + 1,
                           sections[9].start + sections[9].len)
         F(j) == ReadFunction(
                   payload, entity_index_.function_index[j].function_offset,
                   Len(ReturnOperands(IRs[b_ir],
                          b_collect.e.functions[j].region[1],
                          b_collect.e.functions[j].region[2])))
     IN /\ Len(F(1).use_counts) = 1 /\ Len(F(2).use_counts) = 1
        /\ F(1).results = <<0>>
        /\ entity_index_.function_index[2].function_offset > 0
        /\ ReadKernel(payload, F(2).kernel_list
                                 + F(2).kernels[2].offset).results = <<0>>

\* C29 as claimed: in every kernel record of a compiled function, the
\* pseudo kernel included, each user of a use list is the kernel index
\* (1 .. kernel count - 1) of an operation of the block that is not the
\* return, each operand and result register is below the register count,
\* and the use count of each register is the number of its entries in
\* the use lists plus the number of its uses by the return.
C29_UseListsAllRecords ==
  (b_pc = "done" /\ b_collect.result = "Success") =>
    LET ir == IRs[b_ir]
        e == b_collect.e
        sections == ReadSections(result_.bytes, 3)
        payload == SubSeq(result_.bytes, sections[9].start + 1,
                          sections[9].start + sections[9].len)
    IN \A j \in DOMAIN e.functions :
         e.functions[j].kind # "kNativeFunction" =>
           LET p == e.functions[j].region[1]
               r == e.functions[j].region[2]
               f == ReadFunction(
                      payload,
                      entity_index_.function_index[j].function_offset,
                      Len(ReturnOperands(IRs[b_ir],
                          e.functions[j].region[1],
                          e.functions[j].region[2])))
               NotReturn(i) == ~IsReturn(ir[i])
               ops == SelectSeq(BlockOps(ir, p, {r}), NotReturn)
               num_registers == Len(f.use_counts)
               num_kernels == Len(f.kernels)
               Kernel(k) == ReadKernel(payload,
                                       f.kernel_list + f.kernels[k].offset)
               \* the entries of the use lists of register g
               Entries(g) ==
                 UNION {UNION {{<<k, n, u>> :
                                  u \in DOMAIN Kernel(k).users[n]} :
                               n \in {n \in DOMAIN Kernel(k).results :
                                        Kernel(k).results[n] = g}} :
                        k \in 1..num_kernels}
               ReturnUses(g) ==
                 {m \in DOMAIN f.results : f.results[m] = g}
           IN /\ num_kernels = Len(ops) + 1
              /\ \A k \in 1..num_kernels :
                   \A n \in DOMAIN Kernel(k).users :
                     \A u \in DOMAIN Kernel(k).users[n] :
                       LET user == Kernel(k).users[n][u]
                       IN /\ user \in 1..(num_kernels - 1)
                          /\ IF k = 1 /\ n = 1
                               THEN ir[ops[user]].operands = <<>>
                               ELSE \E a \in DOMAIN
                                            Kernel(user + 1).arguments :
                                      Kernel(user + 1).arguments[a] =
                                        Kernel(k).results[n]
              /\ \A k \in 1..num_kernels :
                   /\ \A a \in DOMAIN Kernel(k).arguments :
                        Kernel(k).arguments[a] < num_registers
                   /\ \A n \in DOMAIN Kernel(k).results :
                        Kernel(k).results[n] < num_registers
              /\ \A g \in 0..(num_registers - 1) :
                   f.use_counts[g + 1] =
                     Cardinality(Entries(g)) + Cardinality(ReturnUses(g))

\* C29: in every kernel record of a compiled function each user of a use
\* list is the kernel index (1 .. kernel count - 1) of an operation of the
\* block that is not the return and that reads the register (or has no
\* operand, for the first result of the pseudo kernel); the operand and
\* result registers of the kernels of the operations and the argument
\* registers of the pseudo kernel are below the register count, the first
\* result of the pseudo kernel is the register count itself; the use count
\* of each register is the number of its entries in the use lists plus
\* the number of its uses by the return.
C29_UseLists ==
  (b_pc = "done" /\ b_collect.result = "Success") =>
    LET ir == IRs[b_ir]
        e == b_collect.e
        sections == ReadSections(result_.bytes, 3)
        payload == SubSeq(result_.bytes, sections[9].start + 1,
                          sections[9].start + sections[9].len)
    IN \A j \in DOMAIN e.functions :
         e.functions[j].kind # "kNativeFunction" =>
           LET p == e.functions[j].region[1]
               r == e.functions[j].region[2]
               f == ReadFunction(
                      payload,
                      entity_index_.function_index[j].function_offset,
                      Len(ReturnOperands(IRs[b_ir],
                          e.functions[j].region[1],
                          e.functions[j].region[2])))
               NotReturn(i) == ~IsReturn(ir[i])
               ops == SelectSeq(BlockOps(ir, p, {r}), NotReturn)
               num_registers == Len(f.use_counts)
               num_kernels == Len(f.kernels)
               Kernel(k) == ReadKernel(payload,
                                       f.kernel_list + f.kernels[k].offset)
               \* the entries of the use lists of register g
               Entries(g) ==
                 UNION {UNION {{<<k, n, u>> :
                                  u \in DOMAIN Kernel(k).users[n]} :
                               n \in {n \in DOMAIN Kernel(k).results :
                                        Kernel(k).results[n] = g}} :
                        k \in 1..num_kernels}
               ReturnUses(g) ==
                 {m \in DOMAIN f.results : f.results[m] = g}
           IN /\ num_kernels = Len(ops) + 1
              /\ \A k \in 1..num_kernels :
                   \A n \in DOMAIN Kernel(k).users :
                     \A u \in DOMAIN Kernel(k).users[n] :
                       LET user == Kernel(k).users[n][u]
                       IN /\ user \in 1..(num_kernels - 1)
                          /\ IF k = 1 /\ n = 1
                               THEN ir[ops[user]].operands = <<>>
                               ELSE \E a \in DOMAIN
                                            Kernel(user + 1).arguments :
                                      Kernel(user + 1).arguments[a] =
                                        Kernel(k).results[n]
              /\ \A k \in 2..num_kernels :
                   /\ \A a \in DOMAIN Kernel(k).arguments :
                        Kernel(k).arguments[a] < num_registers
                   /\ \A n \in DOMAIN Kernel(k).results :
                        Kernel(k).results[n] < num_registers
              /\ Kernel(1).arguments = <<>>
              /\ Kernel(1).results[1] = num_registers
              /\ \A n \in 2..Len(Kernel(1).results) :
                   Kernel(1).results[n] < num_registers
              /\ \A g \in 0..(num_registers - 1) :
                   f.use_counts[g + 1] =
                     Cardinality(Entries(g)) + Cardinality(ReturnUses(g))

\* Module 13 is compiled: the argument of main is read by one kernel and
\* twice by the return, its use count is 3; the first result of the
\* pseudo kernel is register 2, the register count.
C29_Witness ==
  /\ b_pc = "done" /\ b_collect.result = "Success" /\ b_ir = 13
  /\ LET sections == ReadSections(result_.bytes, 3)
         payload == SubSeq(result_.bytes, sections[9].start + 1,
                           sections[9].start + sections[9].len)
     IN \E j \in DOMAIN b_collect.e.functions :
          /\ b_collect.e.functions[j].kind # "kNativeFunction"
          /\ LET f == ReadFunction(
                        payload,
                        entity_index_.function_index[j].function_offset,
                        Len(ReturnOperands(IRs[b_ir],
                          b_collect.e.functions[j].region[1],
                          b_collect.e.functions[j].region[2])))
                 pseudo == ReadKernel(payload,
                                      f.kernel_list + f.kernels[1].offset)
             IN /\ f.use_counts = <<3, 1>>
                /\ f.results = <<0, 1, 0>>
                /\ pseudo.results = <<2, 0>>
                /\ pseudo.users = <<<<>>, <<1>>>>

(***************************************************************************)
(* Properties of the function lists of the kernel records                  *)
(***************************************************************************)
\* C30 as claimed: in every kernel record of a compiled module the function
\* list holds one entry per symbol reference of the attributes (lone or
\* inside an array), in the order of the attributes, followed by one entry
\* per region of the operation; every entry is an index of the function
\* table (0 <= index < number of functions, never -1), the entry of a
\* symbol reference is the function of that name and the entry of a
\* region is the function made for that region.
C30_FunctionIndicesValid ==
  (b_pc = "done" /\ b_collect.result = "Success") =>
    LET ir == IRs[b_ir]
        e == b_collect.e
        sections == ReadSections(result_.bytes, 3)
        payload == SubSeq(result_.bytes, sections[9].start + 1,
                          sections[9].start + sections[9].len)
    IN \A j \in DOMAIN e.functions :
         e.functions[j].kind # "kNativeFunction" =>
           LET f == ReadFunction(
                      payload,
                      entity_index_.function_index[j].function_offset,
                      Len(ReturnOperands(IRs[b_ir],
                          e.functions[j].region[1],
                          e.functions[j].region[2])))
               NotReturn(i) == ~IsReturn(ir[i])
               ops == SelectSeq(BlockOps(ir, e.functions[j].region[1],
                                         {e.functions[j].region[2]}),
                                NotReturn)
               \* the names the attributes of an operation refer to, from
               \* attribute k on
               RECURSIVE Names(_, _)
               Names(attrs, k) ==
                 IF k > Len(attrs) THEN <<>>
                 ELSE (CASE attrs[k].value.kind = "sym" ->
                              <<attrs[k].value.sval>>
                         [] IsFunctionArray(attrs[k].value) ->
                              [n \in DOMAIN attrs[k].value.elems |->
                                 attrs[k].value.elems[n].sval]
                         [] OTHER -> <<>>) \o Names(attrs, k + 1)
           IN \A k \in DOMAIN ops :
                LET op == ir[ops[k]]
                    names == Names(op.attrs, 1)
                    functions ==
                      ReadKernel(payload,
                                 f.kernel_list + f.kernels[k + 1].offset
                                ).functions
                IN /\ Len(functions) = Len(names) + Len(op.nblocks)
                   /\ \A n \in DOMAIN functions :
                        /\ functions[n] >= 0
                        /\ functions[n] < Len(e.functions)
                        /\ IF n <= Len(names)
                             THEN e.functions[functions[n] + 1].name
                                    = names[n]
                             ELSE e.functions[functions[n] + 1].region
                                    = <<ops[k], n - Len(names)>>

=============================================================================
